---- MODULE Spec2Model ----
(***************************************************************************)
(* Page geometry normalisation pipeline of the document-intelligence       *)
(* repository: PageRotator, SkewDetector and DocumentPreprocessor.         *)
(*                                                                         *)
(* Angles are fixed-point integers in tenths of a degree (Deg(15) = 150,   *)
(* 0.3 degrees = 3).  Page rotations are whole degrees, as PyMuPDF keeps   *)
(* them.                                                                  *)
(***************************************************************************)
EXTENDS Integers, Sequences, FiniteSets, TLC

VARIABLES
    \* ---- SkewDetector._normalise_angle, run statement by statement
    nraw,       \* the argument of the call
    nangle,     \* the local variable `angle`
    npc,        \* "idle" | "low_loop" | "high_loop" | "return"
    \* ---- a SkewDetector and one call of _estimate_angle / deskew_page
    detector,   \* the SkewDetector: [max_skew, min_correction]
    image,      \* what the OpenCV primitives report on the rendered page
    epc,        \* "idle" | "call" | "return"
    eret,       \* what _estimate_angle returned, with the strategies it ran
    dpage,      \* the fitz.Page handed to deskew_page
    dpc,        \* "idle" | "call" | "return" | "raised"
    dret,       \* the SkewDetectionResult, or the exception that escaped
    \* ---- one call of PageRotator.rotate
    rpage,      \* the fitz.Page being rotated (mutated in place)
    renv,       \* how get_pixmap and the orientation detector answer
    rpc,        \* "idle" | "landscape_rotator" | "upside_down_rotator"
                \* | "image_to_osd" (waiting for the detector) | "return"
                \* | "raised"
    rret,       \* what the two rotators returned so far
    \* ---- one run of DocumentPreprocessor.preprocess
    settings,   \* the PreprocessingSettings
    document,   \* self.document, the input
    pc,         \* the statement preprocess() is at
    document_bytes, \* the bytes handed from one stage to the next
    input_pdf,  \* pages of the document the current stage has open
    output_pdf, \* pages of the document the current stage is building
    index,      \* number of pages the current stage's loop has handled
    returned,   \* Optional: what preprocess() returned
    raised,     \* the exception that left preprocess(), None if none
    handles,    \* the fitz documents the current stage has open, by name
    last,       \* the latest per-page step: its stage, page and outcome
    trace,      \* per input page, the operations applied to it so far, in order
    \* ---- one PreprocessingSettings(...) call and what is done with the object
    kwargs,     \* the arguments of the constructor call
    made,       \* Optional: the PreprocessingSettings object, once it exists
    spc,        \* "idle" | "init" | "object" | "ValueError" | "dpi"
                \* | "FrozenInstanceError"
    dpi_ret,    \* the page size and what _determine_page_dpi returned for it
    \* ---- one SkewDetector(...) call and a render with the object
    sd_args,    \* the arguments of the constructor call
    sd_self,    \* Optional: the SkewDetector object, once it exists
    sd_pc,      \* "idle" | "init" | "object" | "ValueError" | "rendered"
    sd_matrix,  \* the matrix _page_to_numpy handed to page.get_pixmap
    \* ---- one call of SkewDetector._robust_weighted_angle
    wa_arg,     \* the argument weighted_angles
    wa_pc,      \* "idle" | "call" | "return"
    wa_ret,     \* the float returned
    \* ---- one preview on its way to the orientation detector
    pix,        \* the fitz.Pixmap handed to pix_to_cv2_image
    pv_pc,      \* "idle" | "pix_to_cv2_image" | "get_text_orientation"
                \* | "image_to_osd" | "raised"
    pv_image,   \* the shape of the numpy image the latest step produced
    pv_exc      \* the exception that left the latest step, None if none

norm_vars == <<nraw, nangle, npc>>
est_vars == <<epc, eret>>
deskew_vars == <<dpage, dpc, dret>>
skew_vars == <<detector, image, epc, eret, dpage, dpc, dret>>
rot_vars == <<rpage, renv, rpc, rret>>

cfg_vars == <<kwargs, made, spc, dpi_ret>>

ctor_vars == <<sd_args, sd_self, sd_pc, sd_matrix>>
median_vars == <<wa_arg, wa_pc, wa_ret>>
preview_vars == <<pix, pv_pc, pv_image, pv_exc>>
fn_vars == <<ctor_vars, median_vars, preview_vars>>

pipe_vars == <<settings, document, pc, document_bytes, input_pdf, output_pdf,
               index, returned, raised, handles, last, trace>>

vars == <<nraw, nangle, npc, detector, image, epc, eret, dpage, dpc, dret,
          rpage, renv, rpc, rret, settings, document, pc, document_bytes,
          input_pdf, output_pdf, index, returned, raised, handles, last,
          trace, kwargs, made, spc, dpi_ret, sd_args, sd_self, sd_pc,
          sd_matrix, wa_arg, wa_pc, wa_ret, pix, pv_pc, pv_image, pv_exc>>

None == "None"

Deg(d) == d * 10

Abs(x) == IF x < 0 THEN -x ELSE x

Max(a, b) == IF a >= b THEN a ELSE b
Min(a, b) == IF a <= b THEN a ELSE b

\* Non-finite floats are integers far outside every finite angle of the
\* model: NaN, and Inf with -Inf its negation.  Python compares NaN false
\* with everything, so the operators test IsNaN before they compare.
NaN == Deg(100000000)
Inf == Deg(200000000)
IsNaN(x) == x = NaN
\* math.isfinite
isfinite(x) == Abs(x) < Deg(50000000)

\* A float32 keeps 24 significant bits.  On the whole numbers of the model
\* the conversion of a float to np.float32 is the rounding of the number to
\* 24 significant bits, ties to even: every whole number up to 2^24 in
\* magnitude is kept, 2^24 + 1 becomes 2^24.
RECURSIVE float32_ulp(_, _)
float32_ulp(x, u) ==
    IF Abs(x) \div u < 16777216 THEN u ELSE float32_ulp(x, 2 * u)

\* np.array(..., dtype=np.float32) on one number, and the rounding of a
\* float32 sum
float32(x) ==
    LET u == float32_ulp(x, 1)
        q == x \div u
        r == x % u
    IN  IF r = 0 THEN x
        ELSE IF 2 * r < u THEN q * u
        ELSE IF 2 * r > u THEN (q + 1) * u
        ELSE IF q % 2 = 0 THEN q * u
        ELSE (q + 1) * u

\* ------------------------------------------------------------------------
\* Bounds of the model
\* ------------------------------------------------------------------------

\* raw angles handed to _normalise_angle range over -MaxRawAngle..MaxRawAngle
\* (tenths of a degree)
MaxRawAngle == 4000

\* at most MaxLines segments, and at most MaxLines lines, detected on a page
MaxLines == 2

\* ------------------------------------------------------------------------
\* SkewDetector._normalise_angle  (skew_detector.py 242-248)
\* ------------------------------------------------------------------------

\* mutant of LowLoopCond: strict comparison, so -90.0 is left as it is
LowLoopCond_strict(angle) == angle < Deg(-90)

\* `while angle <= -90.0`
LowLoopCond(angle) == angle <= Deg(-90)

\* `while angle > 90.0`
HighLoopCond(angle) == angle > Deg(90)

RECURSIVE normalise_low(_)
normalise_low(angle) ==
    IF LowLoopCond(angle) THEN normalise_low(angle + Deg(180)) ELSE angle

RECURSIVE normalise_high(_)
normalise_high(angle) ==
    IF HighLoopCond(angle) THEN normalise_high(angle - Deg(180)) ELSE angle

\* the function as one value: first loop, then second loop, then return
normalise_angle(angle) == normalise_high(normalise_low(angle))

NormIdle == nraw = 0 /\ nangle = 0 /\ npc = "idle"

\* no SkewDetector exists and no page has been rendered for it
DetectorIdle ==
    /\ detector = [max_skew |-> 0, min_correction |-> 0]
    /\ image = [fg |-> FALSE]

EstIdle ==
    /\ epc = "idle"
    /\ eret = [angle |-> 0, tried |-> <<>>]

DeskewIdle ==
    /\ dpage = [id |-> 0]
    /\ dpc = "idle"
    /\ dret = [exc |-> None]

SkewIdle == DetectorIdle /\ EstIdle /\ DeskewIdle

RotIdle ==
    /\ rpage = [id |-> 0]
    /\ renv = [pixmap |-> "ok"]
    /\ rpc = "idle"
    /\ rret = [exc |-> None]

\* no DocumentPreprocessor is running
PipeIdle ==
    /\ settings = [preserve_image_only_pages |-> TRUE]
    /\ document = [kind |-> "None"]
    /\ pc = "idle"
    /\ document_bytes = [kind |-> "None"]
    /\ input_pdf = <<>>
    /\ output_pdf = <<>>
    /\ index = 0
    /\ returned = <<>>
    /\ raised = None
    /\ handles = {}
    /\ last = [stage |-> "none"]
    /\ trace = <<>>

\* no PreprocessingSettings is being constructed
CfgIdle ==
    /\ kwargs = [jpg_quality |-> 0]
    /\ made = <<>>
    /\ spc = "idle"
    /\ dpi_ret = [width |-> 0, height |-> 0, dpi |-> 0]

\* no SkewDetector is being constructed
CtorIdle ==
    /\ sd_args = [detection_dpi |-> 0]
    /\ sd_self = <<>>
    /\ sd_pc = "idle"
    /\ sd_matrix = <<>>

\* _robust_weighted_angle is not running
MedianIdle ==
    /\ wa_arg = <<>>
    /\ wa_pc = "idle"
    /\ wa_ret = 0

\* no preview is being prepared
PreviewIdle ==
    /\ pix = [n |-> 0]
    /\ pv_pc = "idle"
    /\ pv_image = <<>>
    /\ pv_exc = None

FnIdle == CtorIdle /\ MedianIdle /\ PreviewIdle

RawAngles == (-MaxRawAngle)..MaxRawAngle

InitNorm ==
    /\ nraw \in RawAngles
    /\ nangle = nraw
    /\ npc = "low_loop"
    /\ SkewIdle /\ RotIdle /\ PipeIdle /\ CfgIdle /\ FnIdle

\* one iteration of `while angle <= -90.0: angle += 180.0`
NormLowStep ==
    /\ npc = "low_loop"
    /\ LowLoopCond(nangle)
    /\ nangle' = nangle + Deg(180)
    /\ UNCHANGED <<nraw, npc, skew_vars, rot_vars, pipe_vars, fn_vars, cfg_vars>>

NormLowExit ==
    /\ npc = "low_loop"
    /\ ~LowLoopCond(nangle)
    /\ npc' = "high_loop"
    /\ UNCHANGED <<nraw, nangle, skew_vars, rot_vars, pipe_vars, fn_vars, cfg_vars>>

\* one iteration of `while angle > 90.0: angle -= 180.0`
NormHighStep ==
    /\ npc = "high_loop"
    /\ HighLoopCond(nangle)
    /\ nangle' = nangle - Deg(180)
    /\ UNCHANGED <<nraw, npc, skew_vars, rot_vars, pipe_vars, fn_vars, cfg_vars>>

\* `return angle`
NormReturn ==
    /\ npc = "high_loop"
    /\ ~HighLoopCond(nangle)
    /\ npc' = "return"
    /\ UNCHANGED <<nraw, nangle, skew_vars, rot_vars, pipe_vars, fn_vars, cfg_vars>>

NextNorm ==
    \/ NormLowStep
    \/ NormLowExit
    \/ NormHighStep
    \/ NormReturn

\* A Python call runs to completion: the interpreter keeps executing the
\* next statement of the function, hence weak fairness of its steps.
SpecNorm == InitNorm /\ [][NextNorm]_vars /\ WF_vars(NextNorm)

RECURSIVE insert_sorted(_, _)
insert_sorted(pair, sorted) ==
    IF sorted = <<>> THEN <<pair>>
    ELSE IF pair[1] < Head(sorted)[1] THEN <<pair>> \o sorted
    ELSE <<Head(sorted)>> \o insert_sorted(pair, Tail(sorted))

\* angles[np.argsort(angles)] with the weights carried along
RECURSIVE argsort(_)
argsort(weighted_angles) ==
    IF weighted_angles = <<>> THEN <<>>
    ELSE insert_sorted(Head(weighted_angles), argsort(Tail(weighted_angles)))

\* np.cumsum(weights)[i]: the running sum of a float32 array is a float32
RECURSIVE cumsum(_, _)
cumsum(sorted, i) ==
    IF i = 0 THEN 0 ELSE float32(cumsum(sorted, i - 1) + sorted[i][2])

\* mutant of searchsorted: side="right", the entries at the cutoff are
\* passed over too
searchsorted_right(sorted) ==
    Cardinality({i \in 1..Len(sorted) :
                    2 * cumsum(sorted, i) <= cumsum(sorted, Len(sorted))})

\* np.searchsorted(cumulative, cumulative[-1] * 0.5): the number of entries
\* strictly below the cutoff (0-based insertion point); doubled to stay integral
searchsorted(sorted) ==
    Cardinality({i \in 1..Len(sorted) :
                    2 * cumsum(sorted, i) < cumsum(sorted, Len(sorted))})

\* the two np.array(..., dtype=np.float32) of lines 206-207, kept as pairs
as_float32(weighted_angles) ==
    [k \in DOMAIN weighted_angles |->
        <<float32(weighted_angles[k][1]), float32(weighted_angles[k][2])>>]

\* _robust_weighted_angle  (202-215)
robust_weighted_angle(weighted_angles) ==
    IF weighted_angles = <<>> THEN 0
    ELSE LET sorted == argsort(as_float32(weighted_angles))
             median_idx == searchsorted(sorted)
         IN  sorted[Min(median_idx, Len(sorted) - 1) + 1][1]

\* _collect_hough_segment_angles  (154-183); <<>> when lines is None
RECURSIVE collect_hough_segment_angles(_)
collect_hough_segment_angles(segments) ==
    IF segments = <<>> THEN <<>>
    ELSE LET seg == Head(segments)
             rest == collect_hough_segment_angles(Tail(segments))
             angle == normalise_angle(seg.raw)
         IN  IF seg.length = 0 THEN rest
             ELSE IF Abs(angle) <= Deg(90) /\ seg.length >= 5
                  THEN <<<<angle, seg.length>>>> \o rest
                  ELSE rest

\* _collect_standard_hough_angles  (185-200)
RECURSIVE collect_standard_hough_angles(_)
collect_standard_hough_angles(lines) ==
    IF lines = <<>> THEN <<>>
    ELSE LET line == Head(lines)
             rest == collect_standard_hough_angles(Tail(lines))
             angle == normalise_angle(line.theta - Deg(90))
             weight == Max(1, Abs(line.rho))
         IN  IF Abs(angle) <= Deg(90)
             THEN <<<<angle, weight>>>> \o rest
             ELSE rest

\* _angle_from_pca  (217-224)
angle_from_pca(eigen) ==
    IF eigen = <<>> THEN 0 ELSE normalise_angle(eigen[1])

\* mutant of within_max_skew: the bound is never applied
within_max_skew_unchecked(det, angle) == TRUE

\* `abs(angle) <= self.max_skew`  (135, 141, 149)
within_max_skew(det, angle) == Abs(angle) <= det.max_skew

\* mutant of angle_from_min_area: angles below -45 are not re-expressed
\* relative to the other axis
angle_from_min_area_no_fold(det, rect) ==
    LET angle == IF IsNaN(rect) THEN NaN ELSE -rect
    IN  IF ~isfinite(angle) THEN 0
        ELSE IF Abs(angle) > det.max_skew THEN 0
        ELSE angle

\* _angle_from_min_area  (226-240)
angle_from_min_area(det, rect) ==
    LET angle == IF IsNaN(rect) THEN NaN
                 ELSE IF rect < Deg(-45) THEN -(Deg(90) + rect)
                 ELSE -rect
    IN  IF ~isfinite(angle) THEN 0
        ELSE IF Abs(angle) > det.max_skew THEN 0
        ELSE angle

\* mutant of coords_is_none: the blank-page guard is missing
coords_is_none_never(im) == FALSE

\* `coords is None`  (144-146)
coords_is_none(im) == ~im.fg

\* mutant of estimate_angle: the standard Hough lines are consulted before
\* the probabilistic segments
estimate_angle_hough_first(det, im) ==
    LET wa1 == collect_hough_segment_angles(im.segments)
        a1 == robust_weighted_angle(wa1)
        wa2 == collect_standard_hough_angles(im.lines)
        a2 == robust_weighted_angle(wa2)
        a3 == angle_from_pca(im.eigen)
    IN  IF wa2 /= <<>> /\ within_max_skew(det, a2)
        THEN [angle |-> a2, tried |-> <<"hough">>]
        ELSE IF wa1 /= <<>> /\ within_max_skew(det, a1)
        THEN [angle |-> a1, tried |-> <<"hough", "segments">>]
        ELSE IF coords_is_none(im)
        THEN [angle |-> 0, tried |-> <<"hough", "segments">>]
        ELSE IF within_max_skew(det, a3)
        THEN [angle |-> a3, tried |-> <<"hough", "segments", "pca">>]
        ELSE [angle |-> angle_from_min_area(det, im.rect),
              tried |-> <<"hough", "segments", "pca", "min_area">>]

\* _estimate_angle  (115-152): the angle returned and the strategies run
estimate_angle(det, im) ==
    LET wa1 == collect_hough_segment_angles(im.segments)
        a1 == robust_weighted_angle(wa1)
        wa2 == collect_standard_hough_angles(im.lines)
        a2 == robust_weighted_angle(wa2)
        a3 == angle_from_pca(im.eigen)
    IN  IF wa1 /= <<>> /\ within_max_skew(det, a1)
        THEN [angle |-> a1, tried |-> <<"segments">>]
        ELSE IF wa2 /= <<>> /\ within_max_skew(det, a2)
        THEN [angle |-> a2, tried |-> <<"segments", "hough">>]
        ELSE IF coords_is_none(im)
        THEN [angle |-> 0, tried |-> <<"segments", "hough">>]
        ELSE IF within_max_skew(det, a3)
        THEN [angle |-> a3, tried |-> <<"segments", "hough", "pca">>]
        ELSE [angle |-> angle_from_min_area(det, im.rect),
              tried |-> <<"segments", "hough", "pca", "min_area">>]

\* ---- the pages the estimator is run on

SeqsUpTo(S, n) == UNION {[1..k -> S] : k \in 0..n}

SegmentChoices ==
    { [raw |-> Deg(2), length |-> 30],      \* 2 degrees, long
      [raw |-> Deg(-170), length |-> 10],   \* normalises to 10 degrees
      [raw |-> Deg(100), length |-> 30],    \* normalises to -80 degrees
      [raw |-> Deg(40), length |-> 4],      \* shorter than 5: dropped
      [raw |-> 0, length |-> 0] }           \* dx = dy = 0: skipped

LineChoices ==
    { [theta |-> Deg(90), rho |-> 7],       \* horizontal line, 0 degrees
      [theta |-> Deg(95), rho |-> 0],       \* 5 degrees, weight max(1, 0)
      [theta |-> 0, rho |-> -3] }           \* -90, normalises to 90 degrees

EigenChoices == { <<>>, <<Deg(1)>>, <<Deg(179)>>, <<Deg(40)>> }

RectChoices ==
    { 0, Deg(-10), Deg(-30), Deg(-45), Deg(-80), Deg(-60), Deg(10), Deg(90),
      NaN, -Inf, Inf }

\* a page without foreground has no edge, so no segment and no line, and
\* no coordinates to decompose
BlankImage ==
    [fg |-> FALSE, segments |-> <<>>, lines |-> <<>>, eigen |-> <<>>, rect |-> 0]

Images ==
    {BlankImage} \cup
    [fg : {TRUE},
     segments : SeqsUpTo(SegmentChoices, MaxLines),
     lines : SeqsUpTo(LineChoices, MaxLines),
     eigen : EigenChoices,
     rect : RectChoices]

\* SkewDetector.__init__ stores max_skew and min_correction unvalidated
EstimateDetectors ==
    [max_skew : {0, Deg(5), Deg(15)}, min_correction : {3}]

NoReturn == [angle |-> 0, tried |-> <<>>]

InitEstimate ==
    /\ detector \in EstimateDetectors
    /\ image \in Images
    /\ epc = "call"
    /\ eret = NoReturn
    /\ NormIdle /\ DeskewIdle /\ RotIdle /\ PipeIdle /\ CfgIdle /\ FnIdle

\* detect_skew_angle / the estimation step of deskew_page  (50-59)
EstimateAngle ==
    /\ epc = "call"
    /\ eret' = estimate_angle(detector, image)
    /\ epc' = "return"
    /\ UNCHANGED <<detector, image, norm_vars, deskew_vars, rot_vars, pipe_vars, fn_vars, cfg_vars>>

NextEstimate == EstimateAngle

SpecEstimate == InitEstimate /\ [][NextEstimate]_vars

\* the angle strategy k yields on the page, as a set (empty: no candidates)
SegmentsYield == LET wa == collect_hough_segment_angles(image.segments)
                 IN  IF wa = <<>> THEN {} ELSE {robust_weighted_angle(wa)}
HoughYield == LET wa == collect_standard_hough_angles(image.lines)
              IN  IF wa = <<>> THEN {} ELSE {robust_weighted_angle(wa)}
PcaYield == IF image.fg THEN {angle_from_pca(image.eigen)} ELSE {}
RectYield ==
    IF ~image.fg \/ ~isfinite(image.rect) THEN {}
    ELSE {IF image.rect < Deg(-45) THEN -(Deg(90) + image.rect) ELSE -image.rect}
InBound(yield) == \E a \in yield : Abs(a) <= detector.max_skew

\* C5: _estimate_angle returns an angle a with |a| <= max_skew, and exactly
\* 0.0 when no strategy yields an in-bound angle.
C5_EstimateBounded ==
    epc = "return" =>
        /\ isfinite(eret.angle)
        /\ Abs(eret.angle) <= detector.max_skew
        /\ (~InBound(SegmentsYield) /\ ~InBound(HoughYield)
              /\ ~InBound(PcaYield) /\ ~InBound(RectYield)) => eret.angle = 0

\* C5 witness: the first three strategies all yielded an out-of-bound angle
\* and the rectangle angle was not finite, and the call returned
C5_Witness ==
    /\ epc = "return"
    /\ SegmentsYield /= {} /\ ~InBound(SegmentsYield)
    /\ HoughYield /= {} /\ ~InBound(HoughYield)
    /\ PcaYield /= {} /\ ~InBound(PcaYield)
    /\ ~isfinite(image.rect)
    /\ eret.tried = <<"segments", "hough", "pca", "min_area">>

\* the cascade's order, and what the k-th strategy yields on the page
StrategyOrder == <<"segments", "hough", "pca", "min_area">>
YieldOf(k) ==
    CASE k = 1 -> SegmentsYield
      [] k = 2 -> HoughYield
      [] k = 3 -> PcaYield
      [] k = 4 -> RectYield

\* C22: _estimate_angle runs the strategies in the order segments, standard
\* Hough lines, principal axis, bounding rectangle; it returns the angle of
\* the first strategy in that order that yields an angle within max_skew,
\* and a strategy is run only if every earlier one yielded no candidate or
\* an out-of-bound angle.
C22_CascadeOrder ==
    epc = "return" =>
        LET n == Len(eret.tried)
        IN  /\ n >= 1
            /\ eret.tried = SubSeq(StrategyOrder, 1, n)
            /\ \A k \in 1..4 :
                    (InBound(YieldOf(k))
                        /\ \A j \in 1..(k - 1) : ~InBound(YieldOf(j))) =>
                        /\ n = k
                        /\ eret.angle \in YieldOf(k)
            /\ \A k \in 2..n : \A j \in 1..(k - 1) : ~InBound(YieldOf(j))

\* C22 witness: segments and Hough lines both yielded an out-of-bound angle,
\* the principal axis a non-zero angle within the bound, which was returned
\* without the bounding rectangle being consulted
C22_Witness ==
    /\ epc = "return"
    /\ SegmentsYield /= {} /\ ~InBound(SegmentsYield)
    /\ HoughYield /= {} /\ ~InBound(HoughYield)
    /\ InBound(PcaYield)
    /\ eret.tried = <<"segments", "hough", "pca">>
    /\ eret.angle /= 0
    /\ eret.angle \in PcaYield

\* C24: with r the angle minAreaRect reports, _angle_from_min_area computes
\* a = -(90 + r) when r < -45 and a = -r otherwise, and returns a when a is
\* finite and |a| <= max_skew, and exactly 0.0 in every other case.
C24_MinAreaAngle ==
    (epc = "return" /\ Len(eret.tried) = 4) =>
        LET r == image.rect
            below == ~IsNaN(r) /\ r < Deg(-45)
            a == IF below THEN -(Deg(90) + r) ELSE -r
            finite == ~IsNaN(r) /\ r \notin {Inf, -Inf}
        IN  eret.angle = IF finite /\ Abs(a) <= detector.max_skew THEN a ELSE 0

\* C24 witness: the rectangle reported -80 degrees, re-expressed as -10 and
\* returned
C24_Witness ==
    /\ epc = "return"
    /\ eret.tried[Len(eret.tried)] = "min_area"
    /\ image.rect = Deg(-80)
    /\ eret.angle = Deg(-10)

\* C7: on an all-blank page _estimate_angle returns exactly 0.0 and runs
\* neither the principal-axis nor the minimum-bounding-rectangle strategy.
C7_BlankPageZero ==
    (epc = "return" /\ ~image.fg) =>
        /\ eret.angle = 0
        /\ \A k \in 1..Len(eret.tried) : eret.tried[k] \notin {"pca", "min_area"}

\* C7 witness: the estimator has returned on a page with no foreground
C7_Witness ==
    /\ epc = "return"
    /\ ~image.fg
    /\ image.segments = <<>> /\ image.lines = <<>>
    /\ eret.tried = <<"segments", "hough">>

\* ------------------------------------------------------------------------
\* fitz pages.  A page is [id, w, h, rotation, text, content]: id names the
\* input page it derives from, w and h are its media box in points, text
\* is whether get_text finds selectable text, content is "original" (the
\* page as read), "jpeg" / "png" (one rasterised image) or "deskewed".
\* ------------------------------------------------------------------------

\* fitz.Page.rect: the page rectangle as displayed, i.e. after rotation
rect(page) ==
    IF page.rotation \in {90, 270}
    THEN [width |-> page.h, height |-> page.w]
    ELSE [width |-> page.w, height |-> page.h]

\* Optional[bytes]: <<>> is None, <<b>> is the bytes b.  Image bytes are
\* [src, fmt, rotated]: the page rendered, the encoding, and whether the
\* raster was rotated by _rotate_image before it was encoded.
NoBytes == <<>>

\* ------------------------------------------------------------------------
\* SkewDetector.deskew_page  (skew_detector.py 55-102)
\*
\* For deskew_page `image` also says how the rendering and encoding go:
\*   pixmap  "ok" | "error": page.get_pixmap returns or raises
\*   n       pix.n, the channel count of the pixmap
\*   encode  "ok" | "cv2.error" | "not_success": what cv2.imencode does
\*   bound   size in points of the rotated raster (rotated.shape * scale)
\* ------------------------------------------------------------------------

\* mutant of no_correction: the size reported is the media box, whatever
\* the page's rotation
no_correction_media_box(page, angle) ==
    [exc |-> None, angle |-> 0, image_bytes |-> NoBytes,
     width_pts |-> page.w, height_pts |-> page.h,
     recovered |-> {}]

\* mutant of no_correction: the estimated angle is reported, not 0.0
no_correction_keeps_angle(page, angle) ==
    [exc |-> None, angle |-> angle, image_bytes |-> NoBytes,
     width_pts |-> rect(page).width, height_pts |-> rect(page).height,
     recovered |-> {}]

\* SkewDetectionResult(angle=0.0, image_bytes=None, page.rect...)  (62, 73, 78)
no_correction(page, angle) ==
    [exc |-> None, angle |-> 0, image_bytes |-> NoBytes,
     width_pts |-> rect(page).width, height_pts |-> rect(page).height,
     recovered |-> {}]

\* an exception leaves deskew_page: there is no result
raise(exc) ==
    [exc |-> exc, angle |-> 0, image_bytes |-> NoBytes,
     width_pts |-> 0, height_pts |-> 0, recovered |-> {}]

\* the result of a correction  (80)
corrected(page, angle, im) ==
    [exc |-> None, angle |-> angle,
     image_bytes |-> <<[src |-> page.id, fmt |-> "png", rotated |-> TRUE]>>,
     width_pts |-> im.bound.width, height_pts |-> im.bound.height,
     recovered |-> {}]

\* a handler that logs a warning and falls back  (71-78)
logged(result, what) == [result EXCEPT !.recovered = {what}]

\* mutant of encode_png: a cv2.error of the encoder is not caught
encode_png_uncaught(page, angle, im) ==
    IF im.encode = "cv2.error" THEN raise("cv2.error")
    ELSE IF im.encode = "not_success"
    THEN logged(no_correction(page, angle), "encode")
    ELSE corrected(page, angle, im)

\* the encoding of the rotated raster and the three results after it (68-80)
encode_png(page, angle, im) ==
    IF im.encode = "cv2.error"
    THEN logged(no_correction(page, angle), "encode")
    ELSE IF im.encode = "not_success"
    THEN logged(no_correction(page, angle), "encode")
    ELSE corrected(page, angle, im)

\* _page_to_numpy  (82-102): the exception it raises, None when it returns
page_to_numpy(im) ==
    IF im.pixmap = "error" THEN "RuntimeError"
    ELSE IF im.n \notin {4, 3, 1} THEN "ValueError"
    ELSE None

\* deskew_page  (55-80)
deskew_page(det, page, im) ==
    IF page_to_numpy(im) /= None THEN raise(page_to_numpy(im))
    ELSE LET angle == estimate_angle(det, im).angle
         IN  IF Abs(angle) < det.min_correction
             THEN no_correction(page, angle)
             ELSE encode_png(page, angle, im)

\* ---- the pages and renderings deskew_page is run on

DeskewAnalyses ==
    { BlankImage,
      \* 0.2 degrees from the segments
      [fg |-> TRUE, segments |-> <<[raw |-> 2, length |-> 30]>>,
       lines |-> <<>>, eigen |-> <<0>>, rect |-> 0],
      \* 2 degrees from the segments
      [fg |-> TRUE, segments |-> <<[raw |-> Deg(2), length |-> 30]>>,
       lines |-> <<>>, eigen |-> <<0>>, rect |-> 0],
      \* exactly 0 from the standard Hough lines
      [fg |-> TRUE, segments |-> <<>>,
       lines |-> <<[theta |-> Deg(90), rho |-> 7]>>, eigen |-> <<0>>, rect |-> 0],
      \* -10 degrees from the bounding rectangle, the other strategies out of bound
      [fg |-> TRUE, segments |-> <<[raw |-> Deg(100), length |-> 30]>>,
       lines |-> <<[theta |-> 0, rho |-> -3]>>, eigen |-> <<Deg(40)>>,
       rect |-> Deg(-80)],
      \* non-finite bounding rectangle angle
      [fg |-> TRUE, segments |-> <<>>, lines |-> <<>>, eigen |-> <<Deg(40)>>,
       rect |-> NaN] }

Renderings ==
    [pixmap : {"ok", "error"},
     n : {1, 2, 3, 4},
     encode : {"ok", "cv2.error", "not_success"},
     bound : {[width |-> 4, height |-> 5], [width |-> 5, height |-> 4]}]

DeskewImages == {a @@ r : a \in DeskewAnalyses, r \in Renderings}

\* min_correction is stored unvalidated: 0 and negative values are accepted
DeskewDetectors ==
    [max_skew : {Deg(15)}, min_correction : {-1, 0, 3, Deg(2)}]

DeskewPages ==
    [id : {1}, w : {2, 3}, h : {2, 3}, rotation : {0, 90}, text : {TRUE},
     content : {"original"}]

InitDeskew ==
    /\ detector \in DeskewDetectors
    /\ image \in DeskewImages
    /\ dpage \in DeskewPages
    /\ dpc = "call"
    /\ dret = [exc |-> None]
    /\ NormIdle /\ EstIdle /\ RotIdle /\ PipeIdle /\ CfgIdle /\ FnIdle

\* one call of deskew_page: it returns a result or an exception escapes
DeskewPage ==
    /\ dpc = "call"
    /\ dret' = deskew_page(detector, dpage, image)
    /\ dpc' = IF dret'.exc = None THEN "return" ELSE "raised"
    /\ UNCHANGED <<detector, image, dpage, norm_vars, est_vars, rot_vars, pipe_vars, fn_vars, cfg_vars>>

NextDeskew == DeskewPage

SpecDeskew == InitDeskew /\ [][NextDeskew]_vars

\* C4 as claimed: for every configured min_correction, every result has
\* image_bytes None if and only if |angle| < min_correction.
C4_Original ==
    dpc = "return" =>
        (dret.image_bytes = NoBytes <=> Abs(dret.angle) < detector.min_correction)

\* C4 as amended: for every configured min_correction > 0, every result has
\* image_bytes None if and only if |angle| < min_correction.
C4_NoneIffBelowThreshold ==
    (dpc = "return" /\ detector.min_correction > 0) =>
        (dret.image_bytes = NoBytes <=> Abs(dret.angle) < detector.min_correction)

\* C4 witness: the encoder failed on a page that needed a correction, under a
\* positive threshold, and deskew_page returned
C4_Witness ==
    /\ dpc = "return"
    /\ detector.min_correction > 0
    /\ Abs(estimate_angle(detector, image).angle) >= detector.min_correction
    /\ image.encode /= "ok"
    /\ dret.image_bytes = NoBytes

\* C29: a result without correction (image_bytes None) reports the angle
\* 0.0 and the page's own width and height, whatever the estimator found; a
\* result with a correction reports the estimated angle unchanged, and
\* min_correction <= |angle| <= max_skew.
C29_ResultAngleAndSize ==
    dpc = "return" =>
        LET estimated == estimate_angle(detector, image).angle
        IN  IF dret.image_bytes = NoBytes
            THEN /\ dret.angle = 0
                 /\ dret.width_pts = rect(dpage).width
                 /\ dret.height_pts = rect(dpage).height
            ELSE /\ dret.angle = estimated
                 /\ detector.min_correction <= Abs(dret.angle)
                 /\ Abs(dret.angle) <= detector.max_skew

\* C29 witness: the estimator found 2 degrees on a page turned by 90, the
\* encoder failed, and the result reports 0.0 and the page as displayed
C29_Witness ==
    /\ dpc = "return"
    /\ estimate_angle(detector, image).angle = Deg(2)
    /\ image.encode = "cv2.error"
    /\ dpage.rotation = 90 /\ dpage.w = 2 /\ dpage.h = 3
    /\ dret.image_bytes = NoBytes
    /\ dret.angle = 0
    /\ dret.width_pts = 3 /\ dret.height_pts = 2

\* ------------------------------------------------------------------------
\* PageRotator  (page_rotator.py)
\*
\* `renv` is what the page's surroundings answer during rotate():
\*   pixmap  "ok" | "error": page.get_pixmap returns or raises
\*   osd     pytesseract.image_to_osd: [throws, orientation]
\* ------------------------------------------------------------------------

Rotations == {0, 90, 180, 270}

\* mutant of set_rotation: the page keeps its rotation
set_rotation_ignored(page, rotation) == page

\* fitz.Page.set_rotation
set_rotation(page, rotation) == [page EXCEPT !.rotation = rotation]

\* mutant of is_landscape: a square page counts as landscape
is_landscape_or_square(page) == rect(page).width >= rect(page).height

\* `is_landscape = page.rect.width > page.rect.height`  (73)
is_landscape(page) == rect(page).width > rect(page).height

\* landscape_rotator  (71-82): the page and the returned target_rotation
landscape_rotator(page) ==
    LET is_landscape_ == is_landscape(page)
        target_rotation == (page.rotation + 90) % 360
    IN  IF is_landscape_
        THEN [page |-> set_rotation(page, target_rotation),
              target_rotation |-> target_rotation]
        ELSE [page |-> page, target_rotation |-> 0]

\* mutant of osd_handler: the detector's exception is not caught
osd_handler_reraises(osd) ==
    IF osd.hangs
    THEN [exc |-> None, text_orientation |-> 0, recovered |-> {},
          blocked |-> TRUE]
    ELSE IF osd.throws
    THEN [exc |-> "TesseractError", text_orientation |-> 0, recovered |-> {},
          blocked |-> FALSE]
    ELSE [exc |-> None, text_orientation |-> osd.orientation, recovered |-> {},
          blocked |-> FALSE]

\* the try / except around image_to_osd  (38-47).  The call passes no
\* timeout, so a detector that never answers is waited for: the call does
\* not return and nothing is raised (blocked).
osd_handler(osd) ==
    IF osd.hangs
    THEN [exc |-> None, text_orientation |-> 0, recovered |-> {},
          blocked |-> TRUE]
    ELSE IF osd.throws
    THEN [exc |-> None, text_orientation |-> 0, recovered |-> {"osd"},
          blocked |-> FALSE]
    ELSE [exc |-> None, text_orientation |-> osd.orientation, recovered |-> {},
          blocked |-> FALSE]

\* A fitz.Pixmap is [colorspace, alpha, w, h]: colorspace "gray" | "rgb"
\* | "cmyk", alpha 0 | 1, w and h in pixels.  A numpy image is its shape,
\* <<rows, columns>> or <<rows, columns, channels>>.

\* the colour components of a colorspace
components(colorspace) ==
    CASE colorspace = "gray" -> 1
      [] colorspace = "rgb" -> 3
      [] colorspace = "cmyk" -> 4

\* pix.n: components per pixel, alpha included
pix_n(p) == components(p.colorspace) + p.alpha

\* len(pix.samples): one byte per component of every pixel
samples_size(p) == p.h * p.w * pix_n(p)

RECURSIVE product(_)
product(shape) == IF shape = <<>> THEN 1 ELSE Head(shape) * product(Tail(shape))

\* np.frombuffer(pix.samples, dtype=np.uint8).reshape(shape): a ValueError
\* unless the shape holds exactly the elements of the buffer
reshape(size, shape) ==
    IF product(shape) = size THEN [exc |-> None, shape |-> shape]
    ELSE [exc |-> "ValueError", shape |-> <<>>]

\* fitz.Pixmap(fitz.csRGB, pix): the colours converted, the alpha kept
to_rgb(p) == [p EXCEPT !.colorspace = "rgb"]

\* lines 53-54: a CMYK pixmap is replaced by its RGB conversion
rgb_if_cmyk(p) == IF pix_n(p) - p.alpha = 4 THEN to_rgb(p) ELSE p

\* cv2.cvtColor(img, cv2.COLOR_GRAY2BGR) on the reshaped buffer  (57-58)
gray_to_bgr(img) ==
    IF img.exc /= None THEN img
    ELSE [exc |-> None, shape |-> img.shape \o <<3>>]

\* `img = img[:, :, :3]` when pix.alpha; RGB2BGR keeps the shape  (61-66)
drop_alpha(img, alpha) ==
    IF img.exc /= None THEN img
    ELSE IF alpha = 1
    THEN [exc |-> None,
          shape |-> <<img.shape[1], img.shape[2], Min(img.shape[3], 3)>>]
    ELSE img

\* lines 56-69 on the pixmap that line 53-54 left
to_cv2_image(p) ==
    IF pix_n(p) - p.alpha = 1
    THEN gray_to_bgr(reshape(samples_size(p), <<p.h, p.w>>))
    ELSE drop_alpha(reshape(samples_size(p), <<p.h, p.w, pix_n(p)>>), p.alpha)

\* pix_to_cv2_image  (51-69): the exception raised or the shape of img
pix_to_cv2_image(p) == to_cv2_image(rgb_if_cmyk(p))

\* `max_dim = 4000`  (28)
max_dim == 4000

\* int(x * scale_factor) with scale_factor = max_dim / longest: the whole
\* part of the quotient
scaled(x, longest) == (x * max_dim) \div longest

\* cv2.resize(image, new_size, interpolation=cv2.INTER_AREA), new_size
\* being (columns, rows): a cv2.error for a new size with a side of 0  (34)
resize(shape, new_size) ==
    IF new_size[1] <= 0 \/ new_size[2] <= 0
    THEN [exc |-> "cv2.error", shape |-> <<>>]
    ELSE [exc |-> None, shape |-> <<new_size[2], new_size[1], shape[3]>>]

\* lines 32-34 for an image whose longest side is `longest`
resize_to_cap(shape, longest) ==
    resize(shape, <<scaled(shape[2], longest), scaled(shape[1], longest)>>)

\* _get_text_orientation, lines 28-37: small_image, or the exception of
\* the resize
downscale(shape) ==
    IF shape[1] > max_dim \/ shape[2] > max_dim
    THEN resize_to_cap(shape, Max(shape[1], shape[2]))
    ELSE [exc |-> None, shape |-> shape]

\* page.get_pixmap(matrix=fitz.Matrix(multiplier, multiplier)) with the
\* default multiplier 3.0: an RGB pixmap without alpha  (84-87)
get_pixmap(page) ==
    [colorspace |-> "rgb", alpha |-> 0,
     w |-> 3 * rect(page).width, h |-> 3 * rect(page).height]

\* what a step that raised exc hands back
escaped(exc) ==
    [exc |-> exc, text_orientation |-> 0, recovered |-> {}, blocked |-> FALSE]

\* lines 38-49 once small_image exists; the downscaling is outside the try
detect_orientation(small_image, env) ==
    IF small_image.exc /= None THEN escaped(small_image.exc)
    ELSE osd_handler(env.osd)

\* _get_text_orientation  (25-49)
get_text_orientation(im, env) == detect_orientation(downscale(im), env)

\* lines 88-92: the image of the pixmap is handed to _get_text_orientation
orientation_of(image_, env) ==
    IF image_.exc /= None THEN escaped(image_.exc)
    ELSE get_text_orientation(image_.shape, env)

\* mutant of is_upside_down: every non-zero detection is corrected
is_upside_down_any(text_orientation) == text_orientation /= 0

\* `text_orientation == self.UPSIDE_DOWN_ANGLE`  (93)
is_upside_down(text_orientation) == text_orientation = 180

\* upside_down_rotator  (84-100)
upside_down_rotator(page, env) ==
    IF env.pixmap = "error"
    THEN [exc |-> "RuntimeError", page |-> page, text_orientation |-> 0,
          orientation |-> 0, recovered |-> {}, blocked |-> FALSE]
    ELSE LET current_rotation == page.rotation
             got == orientation_of(pix_to_cv2_image(get_pixmap(page)), env)
         IN  IF got.blocked
             THEN [exc |-> None, page |-> page, text_orientation |-> 0,
                   orientation |-> 0, recovered |-> {}, blocked |-> TRUE]
             ELSE IF got.exc /= None
             THEN [exc |-> got.exc, page |-> page, text_orientation |-> 0,
                   orientation |-> 0, recovered |-> got.recovered,
                   blocked |-> FALSE]
             ELSE IF is_upside_down(got.text_orientation)
             THEN [exc |-> None,
                   page |-> set_rotation(page, (current_rotation + 180) % 360),
                   text_orientation |-> got.text_orientation,
                   orientation |-> 180, recovered |-> got.recovered,
                   blocked |-> FALSE]
             ELSE [exc |-> None, page |-> page,
                   text_orientation |-> got.text_orientation,
                   orientation |-> 0, recovered |-> got.recovered,
                   blocked |-> FALSE]

\* rotate  (16-23): landscape_rotator, then upside_down_rotator
rotate(page, env) ==
    LET first == landscape_rotator(page)
        second == upside_down_rotator(first.page, env)
    IN  [exc |-> second.exc, page |-> second.page,
         landscape_orientation |-> first.target_rotation,
         mid_rotation |-> first.page.rotation,
         text_orientation |-> second.text_orientation,
         upside_down_orientation |-> second.orientation,
         recovered |-> second.recovered,
         blocked |-> second.blocked]

\* ---- the pages and detector answers rotate is run on

\* image_to_osd raises, never answers, or reports an orientation
OsdOutcomes ==
    {[throws |-> TRUE, hangs |-> FALSE, orientation |-> 0],
     [throws |-> FALSE, hangs |-> TRUE, orientation |-> 0]} \cup
    [throws : {FALSE}, hangs : {FALSE}, orientation : Rotations]

RotateEnvs == [pixmap : {"ok", "error"}, osd : OsdOutcomes]

\* portrait, landscape and square pages, and the narrowest strip a PDF page
\* can be (3 by 14400 units)
PageSizes == {<<2, 3>>, <<3, 2>>, <<3, 3>>, <<3, 14400>>, <<14400, 3>>}

RotatorPages ==
    {[id |-> 1, w |-> sz[1], h |-> sz[2], rotation |-> r, text |-> TRUE,
      content |-> "original"] : sz \in PageSizes, r \in Rotations}

\* entry_rotation is page.rotation as rotate() received the page
NoRotatorReturn ==
    [exc |-> None, entry_rotation |-> 0, landscape_orientation |-> 0,
     mid_rotation |-> 0, text_orientation |-> 0,
     upside_down_orientation |-> 0, recovered |-> {}]

InitRotator ==
    /\ rpage \in RotatorPages
    /\ renv \in RotateEnvs
    /\ rpc = "landscape_rotator"
    /\ rret = NoRotatorReturn
    /\ NormIdle /\ SkewIdle /\ PipeIdle /\ CfgIdle /\ FnIdle

\* rotate, line 18
LandscapeRotator ==
    /\ rpc = "landscape_rotator"
    /\ LET got == landscape_rotator(rpage)
       IN  /\ rpage' = got.page
           /\ rret' = [rret EXCEPT !.entry_rotation = rpage.rotation,
                                   !.landscape_orientation = got.target_rotation,
                                   !.mid_rotation = got.page.rotation]
    /\ rpc' = "upside_down_rotator"
    /\ UNCHANGED <<renv, norm_vars, skew_vars, pipe_vars, fn_vars, cfg_vars>>

\* rotate, lines 19-23
UpsideDownRotator ==
    /\ rpc = "upside_down_rotator"
    /\ LET got == upside_down_rotator(rpage, renv)
       IN  /\ rpage' = got.page
           /\ rret' = [rret EXCEPT !.exc = got.exc,
                                   !.text_orientation = got.text_orientation,
                                   !.upside_down_orientation = got.orientation,
                                   !.recovered = got.recovered]
           /\ rpc' = IF got.blocked THEN "image_to_osd"
                     ELSE IF got.exc = None THEN "return" ELSE "raised"
    /\ UNCHANGED <<renv, norm_vars, skew_vars, pipe_vars, fn_vars, cfg_vars>>

NextRotator ==
    \/ LandscapeRotator
    \/ UpsideDownRotator

SpecRotator == InitRotator /\ [][NextRotator]_vars

\* C9: with r the page rotation before upside_down_rotator and d the detected
\* orientation, the rotation after the call is (r + 180) mod 360 if d = 180
\* and r if d is 0, 90 or 270.
C9_UpsideDownOnly180 ==
    (rpc = "return" /\ ~renv.osd.throws /\ ~renv.osd.hangs) =>
        rpage.rotation = IF renv.osd.orientation = 180
                         THEN (rret.mid_rotation + 180) % 360
                         ELSE rret.mid_rotation

\* C9 witness: a 180 detection on a page at rotation 270 wrapped to 90
C9_Witness ==
    /\ rpc = "return"
    /\ ~renv.osd.throws /\ ~renv.osd.hangs /\ renv.osd.orientation = 180
    /\ rret.mid_rotation = 270
    /\ rpage.rotation = 90

\* C11: landscape_rotator sets the page rotation to (r + 90) mod 360, r the
\* rotation before the call, exactly when the displayed width is strictly
\* greater than the displayed height; when width <= height (square pages
\* included) the rotation is left as it was.  Nothing else of the page changes.
C11_LandscapeRotatesBy90 ==
    [][rpc = "landscape_rotator" =>
        /\ rpage'.rotation =
                IF rect(rpage).width > rect(rpage).height
                THEN (rpage.rotation + 90) % 360
                ELSE rpage.rotation
        /\ rpage'.w = rpage.w /\ rpage'.h = rpage.h
        /\ rpage'.content = rpage.content]_vars

\* C11 witness: landscape_rotator has turned a page displayed landscape at
\* rotation 90 to rotation 180
C11_Witness ==
    /\ rpc = "upside_down_rotator"
    /\ rret.landscape_orientation = 180
    /\ rpage.rotation = 180
    /\ rect(rpage).width < rect(rpage).height

\* C27: for a page that enters rotate at rotation r0 in {0, 90, 180, 270},
\* the rotation when rotate returns is (r0 + 90 L + 180 U) mod 360, with
\* L = 1 iff the page was displayed landscape on entry and U = 1 iff the
\* detector reported 180, and it is again one of 0, 90, 180, 270.
C27_RotationComposes ==
    rpc = "return" =>
        LET r0 == rret.entry_rotation
            entry == rect([rpage EXCEPT !.rotation = r0])
            L == IF entry.width > entry.height THEN 1 ELSE 0
            U == IF ~renv.osd.throws /\ ~renv.osd.hangs
                     /\ renv.osd.orientation = 180
                 THEN 1 ELSE 0
        IN  /\ r0 \in Rotations
            /\ rpage.rotation = (r0 + 90 * L + 180 * U) % 360
            /\ rpage.rotation \in Rotations

\* C27 witness: a landscape page at rotation 180 that the detector found
\* upside down has come back at rotation 90
C27_Witness ==
    /\ rpc = "return"
    /\ rret.entry_rotation = 180
    /\ rret.mid_rotation = 270
    /\ renv.osd.orientation = 180 /\ ~renv.osd.throws /\ ~renv.osd.hangs
    /\ rpage.rotation = 90

\* C28: the rotation landscape_rotator returns equals the page's rotation
\* after the call, for landscape and portrait pages and every rotation the
\* page had before.
C28_ReturnedRotationIsCumulative ==
    rpc = "upside_down_rotator" => rret.landscape_orientation = rpage.rotation

\* ------------------------------------------------------------------------
\* DocumentPreprocessor  (document_preprocessor/base.py)
\*
\* self.document and the values handed from stage to stage are
\* [kind, read, valid, pages]:
\*   kind   "bytes" | "str" (a path or URL) | "None" | "other" (an object
\*          that is neither, with a length, such as a list)
\*   read   for a str, what reading it gives: "ok" | "FileNotFoundError"
\*          | "IOError" (requests' exceptions are IOErrors too)
\*   valid  whether fitz.open can load the bytes as a PDF
\*   pages  the page sequence of the PDF
\* A document opened by fitz is its page sequence.
\* ------------------------------------------------------------------------

\* mutant of insert_pdf: the copied pages are put in front (start_at=0)
insert_pdf_in_front(output, input, from_page, to_page) ==
    SubSeq(input, from_page + 1, to_page + 1) \o output

\* fitz.Document.insert_pdf(input, from_page=, to_page=): appended at the
\* end, page numbers 0-based  (101-102, 148-149)
insert_pdf(output, input, from_page, to_page) ==
    output \o SubSeq(input, from_page + 1, to_page + 1)

\* document.new_page(width=, height=) followed by new_page.insert_image(
\* rect, stream=image_bytes): one page appended, showing the image
\* (152-155, 217-219)
new_image_page(output, width, height, image_bytes) ==
    Append(output,
           [id |-> image_bytes.src, w |-> width, h |-> height, rotation |-> 0,
            text |-> FALSE,
            content |-> IF image_bytes.rotated THEN "deskewed"
                        ELSE image_bytes.fmt])

\* the bytes of a PDF with these pages
pdf_bytes(valid, pages) ==
    [kind |-> "bytes", read |-> "ok", valid |-> valid, pages |-> pages]

\* _serialize_pdf  (221-229); tobytes is how document.tobytes(garbage=...,
\* clean=..., deflate=...) goes: "ok", "TypeError" (the keywords are not
\* accepted and document.tobytes() is called instead) or "error"
serialize_pdf(pages, tobytes) ==
    IF tobytes = "error"
    THEN [exc |-> "RuntimeError", bytes |-> pdf_bytes(FALSE, <<>>)]
    ELSE [exc |-> None, bytes |-> pdf_bytes(TRUE, pages)]

TobytesOutcomes == {"ok", "TypeError", "error"}

\* document_reader  (41-60): a str is read from its path or URL; anything
\* else is returned as it is after len(document) is logged
document_reader(doc) ==
    IF doc.kind = "str"
    THEN IF doc.read = "FileNotFoundError"
         THEN [exc |-> "FileNotFoundError", bytes |-> doc]
         ELSE IF doc.read = "IOError"
         THEN [exc |-> "IOError", bytes |-> doc]
         ELSE [exc |-> None, bytes |-> pdf_bytes(doc.valid, doc.pages)]
    ELSE IF doc.kind = "None"
    THEN [exc |-> "TypeError", bytes |-> doc]
    ELSE [exc |-> None, bytes |-> doc]

\* `isinstance(document_bytes, (bytes, bytearray))`  (85, 129)
is_bytes(doc) == doc.kind = "bytes"

\* mutant of fitz_open: bytes that are no PDF open as an empty document
fitz_open_lenient(doc) ==
    IF ~is_bytes(doc) THEN [exc |-> "TypeError", pages |-> <<>>]
    ELSE IF ~doc.valid THEN [exc |-> None, pages |-> <<>>]
    ELSE [exc |-> None, pages |-> doc.pages]

\* fitz.open(stream=document_bytes, filetype="pdf")  (64, 89, 133)
fitz_open(doc) ==
    IF ~is_bytes(doc) THEN [exc |-> "TypeError", pages |-> <<>>]
    ELSE IF ~doc.valid THEN [exc |-> "FileDataError", pages |-> <<>>]
    ELSE [exc |-> None, pages |-> doc.pages]

\* mutant of write_through: the rotation is kept once for the document
write_through_shared(pages, at, page) ==
    [j \in DOMAIN pages |->
        IF j = at + 1 THEN page
        ELSE [pages[j] EXCEPT !.rotation = page.rotation]]

\* page.set_rotation on a page of an open document changes that page of
\* the document, the page at 0-based position `at`
\* (page_rotator.py 78, 95; base.py 71-72)
write_through(pages, at, page) == [pages EXCEPT ![at + 1] = page]

\* mutant of should_copy_page: a page whose text cannot be extracted is
\* copied
should_copy_page_on_error(st, page, env) ==
    IF ~st.preserve_image_only_pages
    THEN [copy |-> FALSE, recovered |-> {}]
    ELSE IF env.get_text = "RuntimeError"
    THEN [copy |-> TRUE, recovered |-> {"get_text"}]
    ELSE [copy |-> ~page.text, recovered |-> {}]

\* mutant of should_copy_page: preserve_image_only_pages is not consulted
should_copy_page_always_rasterise(st, page, env) ==
    [copy |-> FALSE, recovered |-> {}]

\* _should_copy_page  (172-188); env.get_text is "ok" | "RuntimeError"
should_copy_page(st, page, env) ==
    IF ~st.preserve_image_only_pages
    THEN [copy |-> FALSE, recovered |-> {}]
    ELSE IF env.get_text = "RuntimeError"
    THEN [copy |-> FALSE, recovered |-> {"get_text"}]
    ELSE [copy |-> ~page.text, recovered |-> {}]

\* mutant of render_page_to_image: no PNG fallback, the ValueError escapes
render_page_to_image_no_fallback(st, page, env) ==
    IF env.pixmap = "error"
    THEN [exc |-> "RuntimeError", image_bytes |-> NoBytes, recovered |-> {},
          attempts |-> <<>>]
    ELSE IF env.jpeg = "ok"
    THEN [exc |-> None, recovered |-> {}, attempts |-> <<"jpeg">>,
          image_bytes |-> <<[src |-> page.id, fmt |-> "jpeg", rotated |-> FALSE]>>]
    ELSE [exc |-> env.jpeg, image_bytes |-> NoBytes, recovered |-> {},
          attempts |-> <<"jpeg">>]

\* mutant of render_page_to_image: `except Exception`, so that every failure
\* of the JPEG encoder falls back to PNG
render_page_to_image_catches_all(st, page, env) ==
    IF env.pixmap = "error"
    THEN [exc |-> "RuntimeError", image_bytes |-> NoBytes, recovered |-> {},
          attempts |-> <<>>]
    ELSE IF env.jpeg = "ok"
    THEN [exc |-> None, recovered |-> {}, attempts |-> <<"jpeg">>,
          image_bytes |-> <<[src |-> page.id, fmt |-> "jpeg", rotated |-> FALSE]>>]
    ELSE IF env.png = "ok"
    THEN [exc |-> None, recovered |-> {"jpeg"}, attempts |-> <<"jpeg", "png">>,
          image_bytes |-> <<[src |-> page.id, fmt |-> "png", rotated |-> FALSE]>>]
    ELSE [exc |-> "RuntimeError", image_bytes |-> NoBytes,
          recovered |-> {"jpeg"}, attempts |-> <<"jpeg", "png">>]

\* _render_page_to_image  (190-208); env.pixmap, env.jpeg, env.png say how
\* get_pixmap and the two encoders go.  The JPEG encoder returns, rejects
\* the buffer with a ValueError, or fails with another exception, which the
\* `except ValueError` lets through.  attempts lists the encodings tried.
render_page_to_image(st, page, env) ==
    IF env.pixmap = "error"
    THEN [exc |-> "RuntimeError", image_bytes |-> NoBytes, recovered |-> {},
          attempts |-> <<>>]
    ELSE IF env.jpeg = "ok"
    THEN [exc |-> None, recovered |-> {}, attempts |-> <<"jpeg">>,
          image_bytes |-> <<[src |-> page.id, fmt |-> "jpeg", rotated |-> FALSE]>>]
    ELSE IF env.jpeg /= "ValueError"
    THEN [exc |-> env.jpeg, image_bytes |-> NoBytes, recovered |-> {},
          attempts |-> <<"jpeg">>]
    ELSE IF env.png = "ok"
    THEN [exc |-> None, recovered |-> {"jpeg"}, attempts |-> <<"jpeg", "png">>,
          image_bytes |-> <<[src |-> page.id, fmt |-> "png", rotated |-> FALSE]>>]
    ELSE [exc |-> "RuntimeError", image_bytes |-> NoBytes,
          recovered |-> {"jpeg"}, attempts |-> <<"jpeg", "png">>]

\* SkewDetector() as skew_detector and PageRotator build it  (base.py 139)
DefaultDetector == [max_skew |-> Deg(15), min_correction |-> 3]

\* ---- the runs of preprocess()

MaxPages == 2

PagesOf(id) ==
    { [id |-> id, w |-> 2, h |-> 3, rotation |-> 0, text |-> TRUE,
       content |-> "original"],
      [id |-> id, w |-> 3, h |-> 2, rotation |-> 0, text |-> TRUE,
       content |-> "original"],
      [id |-> id, w |-> 2, h |-> 3, rotation |-> 0, text |-> FALSE,
       content |-> "original"],
      [id |-> id, w |-> 3, h |-> 2, rotation |-> 90, text |-> FALSE,
       content |-> "original"] }

\* the page sequences of n pages: page i of the input has id i
PageSeqs(n) == {ps \in [1..n -> UNION {PagesOf(i) : i \in 1..n}] :
                   \A i \in 1..n : ps[i].id = i}

\* PDFs: bytes that are no PDF, and the PDFs of one to MaxPages pages
Pdfs ==
    {[valid |-> FALSE, pages |-> <<>>]} \cup
    {[valid |-> TRUE, pages |-> ps] : ps \in UNION {PageSeqs(n) : n \in 1..MaxPages}}

\* self.document: PDF bytes, a path or URL of a PDF (of at most one page, to
\* keep the runs few: past document_reader a run does not depend on where
\* the bytes came from), a path or URL that cannot be read, None, or some
\* other object
Documents ==
    {[kind |-> "bytes", read |-> "ok", valid |-> f.valid, pages |-> f.pages] :
        f \in Pdfs} \cup
    {[kind |-> "str", read |-> "ok", valid |-> f.valid, pages |-> f.pages] :
        f \in {g \in Pdfs : Len(g.pages) <= 1}} \cup
    {[kind |-> "str", read |-> r, valid |-> FALSE, pages |-> <<>>] :
        r \in {"FileNotFoundError", "IOError"}} \cup
    {[kind |-> k, read |-> "ok", valid |-> FALSE, pages |-> <<>>] :
        k \in {"None", "other"}}

Settings == [preserve_image_only_pages : BOOLEAN]

ConvertEnvs ==
    [get_text : {"ok", "RuntimeError"}, pixmap : {"ok", "error"},
     jpeg : {"ok", "ValueError", "RuntimeError"}, png : {"ok", "error"}]

PipelineImages ==
    {a @@ r :
        a \in { [fg |-> TRUE, segments |-> <<[raw |-> 2, length |-> 30]>>,
                 lines |-> <<>>, eigen |-> <<0>>, rect |-> 0],
                [fg |-> TRUE, segments |-> <<[raw |-> Deg(2), length |-> 30]>>,
                 lines |-> <<>>, eigen |-> <<0>>, rect |-> 0] },
        r \in [pixmap : {"ok", "error"}, n : {2, 3},
               encode : {"ok", "cv2.error", "not_success"},
               bound : {[width |-> 4, height |-> 5]}]}

NoStep ==
    [stage |-> "none", index |-> 0, exc |-> None, recovered |-> {},
     fault |-> {}, mid_rotation |-> 0, text_orientation |-> 0,
     image_bytes |-> <<>>, width_pts |-> 0, height_pts |-> 0,
     attempts |-> <<>>]

\* nothing has been handed on yet
NoDocument == [kind |-> "None", read |-> "ok", valid |-> FALSE, pages |-> <<>>]

Init ==
    /\ settings \in Settings
    /\ document \in Documents
    /\ pc = "document_reader"
    /\ document_bytes = NoDocument
    /\ input_pdf = <<>>
    /\ output_pdf = <<>>
    /\ index = 0
    /\ returned = <<>>
    /\ raised = None
    /\ handles = {}
    /\ last = NoStep
    /\ trace = [i \in 1..Len(document.pages) |-> <<>>]
    /\ NormIdle /\ SkewIdle /\ RotIdle /\ CfgIdle /\ FnIdle

unit_vars == <<norm_vars, skew_vars, rot_vars, cfg_vars, fn_vars>>

\* mutant of Raise: the `finally` that closes the documents is missing
Raise_leaves_open(exc) ==
    /\ raised' = exc
    /\ pc' = "raised"
    /\ input_pdf' = input_pdf
    /\ output_pdf' = output_pdf
    /\ handles' = handles

\* mutant of Raise: the handler swallows the exception and the loop takes
\* the page again
Raise_retries(exc) ==
    /\ raised' = raised
    /\ pc' = pc
    /\ input_pdf' = input_pdf
    /\ output_pdf' = output_pdf
    /\ handles' = handles

\* an exception leaves the stage: `finally` closes the documents the stage
\* has open and preprocess() returns nothing  (79-80, 121-126, 165-170)
Raise(exc) ==
    /\ raised' = exc
    /\ pc' = "raised"
    /\ input_pdf' = <<>>
    /\ output_pdf' = <<>>
    /\ handles' = {}

\* the step of a stage's _serialize_pdf call that failed
SerializeStep(exc) ==
    [NoStep EXCEPT !.stage = "serialize", !.exc = exc, !.fault = {"tobytes"}]

\* document_reader  (41-60)
DocumentReader ==
    /\ pc = "document_reader"
    /\ LET got == document_reader(document)
       IN  IF got.exc = None
           THEN /\ document_bytes' = got.bytes
                /\ pc' = "document_rotator"
                /\ UNCHANGED <<input_pdf, output_pdf, raised, handles>>
           ELSE /\ Raise(got.exc)
                /\ UNCHANGED document_bytes
    /\ UNCHANGED <<settings, document, index, returned, last, trace, unit_vars>>

\* document_rotator: fitz.open  (63-67)
DocumentRotatorOpen ==
    /\ pc = "document_rotator"
    /\ LET got == fitz_open(document_bytes)
       IN  IF got.exc = None
           THEN /\ input_pdf' = got.pages
                /\ handles' = {"doc"}
                /\ pc' = "rotate_loop"
                /\ trace' = [i \in DOMAIN trace |-> trace[i] \o <<"read">>]
                /\ UNCHANGED <<output_pdf, raised>>
           ELSE /\ Raise(got.exc)
                /\ UNCHANGED trace
    /\ index' = 0
    /\ UNCHANGED <<settings, document, document_bytes, returned, last,
                   unit_vars>>

\* what goes wrong while rotate() handles a page under env
RotateFault(env) ==
    IF env.pixmap = "error" THEN {"pixmap"}
    ELSE IF env.osd.hangs THEN {"osd_hang"}
    ELSE IF env.osd.throws THEN {"osd"}
    ELSE {}

\* document_rotator: one iteration of `for page in doc`  (71-72).  When the
\* detector never answers, the iteration stays inside image_to_osd.
RotatePage ==
    /\ pc = "rotate_loop"
    /\ index < Len(input_pdf)
    /\ \E env \in RotateEnvs :
        LET page == input_pdf[index + 1]
            got == rotate(page, env)
        IN  /\ last' = [NoStep EXCEPT !.stage = "rotate", !.index = index,
                                      !.exc = got.exc,
                                      !.recovered = got.recovered,
                                      !.fault = RotateFault(env),
                                      !.mid_rotation = got.mid_rotation,
                                      !.text_orientation = got.text_orientation]
            /\ trace' = [trace EXCEPT ![page.id] = @ \o <<"rotate">>]
            /\ IF got.blocked
               THEN /\ pc' = "image_to_osd"
                    /\ input_pdf' = write_through(input_pdf, index, got.page)
                    /\ UNCHANGED <<index, raised, output_pdf, handles>>
               ELSE IF got.exc = None
               THEN /\ input_pdf' = write_through(input_pdf, index, got.page)
                    /\ index' = index + 1
                    /\ UNCHANGED <<pc, raised, output_pdf, handles>>
               ELSE /\ Raise(got.exc)
                    /\ UNCHANGED index
    /\ UNCHANGED <<settings, document, document_bytes, returned, unit_vars>>

\* document_rotator: serialise, close, return  (74-80)
DocumentRotatorReturn ==
    /\ pc = "rotate_loop"
    /\ index = Len(input_pdf)
    /\ \E tobytes \in TobytesOutcomes :
        LET got == serialize_pdf(input_pdf, tobytes)
        IN  IF got.exc = None
            THEN /\ document_bytes' = got.bytes
                 /\ input_pdf' = <<>>
                 /\ handles' = {}
                 /\ pc' = "convert_pdf_to_images_to_pdf"
                 /\ UNCHANGED <<output_pdf, raised, last>>
            ELSE /\ Raise(got.exc)
                 /\ last' = SerializeStep(got.exc)
                 /\ UNCHANGED document_bytes
    /\ UNCHANGED <<settings, document, index, returned, trace, unit_vars>>

\* the isinstance check and the two fitz.open calls that begin
\* convert_pdf_to_images_to_pdf (85-94) and skew_detector (129-139): the
\* exception that leaves them, None when both documents are open
open_input_and_output(doc) ==
    IF ~is_bytes(doc) THEN "TypeError" ELSE fitz_open(doc).exc

\* convert_pdf_to_images_to_pdf: the check and the two fitz.open calls  (85-97)
ConvertOpen ==
    /\ pc = "convert_pdf_to_images_to_pdf"
    /\ IF open_input_and_output(document_bytes) = None
       THEN /\ input_pdf' = fitz_open(document_bytes).pages
            /\ output_pdf' = <<>>
            /\ handles' = {"input_pdf", "output_pdf"}
            /\ pc' = "convert_loop"
            /\ UNCHANGED raised
       ELSE Raise(open_input_and_output(document_bytes))
    /\ index' = 0
    /\ UNCHANGED <<settings, document, document_bytes, returned, last, trace,
                   unit_vars>>

\* what goes wrong while the rasterisation loop handles a page under env
ConvertFault(st, page, env) ==
    LET text_fault == IF st.preserve_image_only_pages
                         /\ env.get_text = "RuntimeError"
                      THEN {"get_text"} ELSE {}
        copied == st.preserve_image_only_pages /\ env.get_text = "ok"
                  /\ ~page.text
    IN  IF copied THEN {}
        ELSE IF env.pixmap = "error" THEN text_fault \cup {"pixmap"}
        ELSE IF env.jpeg = "ok" THEN text_fault
        ELSE IF env.jpeg /= "ValueError" THEN text_fault \cup {"jpeg_error"}
        ELSE IF env.png = "ok" THEN text_fault \cup {"jpeg"}
        ELSE text_fault \cup {"jpeg", "png"}

\* convert_pdf_to_images_to_pdf: one iteration of the page loop  (99-113)
ConvertPage ==
    /\ pc = "convert_loop"
    /\ index < Len(input_pdf)
    /\ \E env \in ConvertEnvs :
        LET page == input_pdf[index + 1]
            decision == should_copy_page(settings, page, env)
            rendered == render_page_to_image(settings, page, env)
            step == [NoStep EXCEPT !.stage = "convert", !.index = index,
                                   !.fault = ConvertFault(settings, page, env)]
        IN  IF decision.copy
            THEN /\ output_pdf' = insert_pdf(output_pdf, input_pdf, index, index)
                 /\ index' = index + 1
                 /\ last' = [step EXCEPT !.recovered = decision.recovered]
                 /\ trace' = [trace EXCEPT ![page.id] = @ \o <<"copy">>]
                 /\ UNCHANGED <<pc, raised, input_pdf, handles>>
            ELSE /\ last' = [step EXCEPT
                                !.exc = rendered.exc,
                                !.recovered = decision.recovered
                                              \cup rendered.recovered,
                                !.image_bytes = rendered.image_bytes,
                                !.attempts = rendered.attempts]
                 /\ trace' = [trace EXCEPT ![page.id] =
                                @ \o (IF "get_text" \in decision.recovered
                                      THEN <<"get_text_error">> ELSE <<>>)
                                  \o <<"rasterize">>]
                 /\ IF rendered.exc = None
                    THEN /\ output_pdf' =
                                new_image_page(output_pdf, rect(page).width,
                                               rect(page).height,
                                               rendered.image_bytes[1])
                         /\ index' = index + 1
                         /\ UNCHANGED <<pc, raised, input_pdf, handles>>
                    ELSE /\ Raise(rendered.exc)
                         /\ UNCHANGED index
    /\ UNCHANGED <<settings, document, document_bytes, returned, unit_vars>>

\* convert_pdf_to_images_to_pdf: serialise, close, return  (115-126)
ConvertReturn ==
    /\ pc = "convert_loop"
    /\ index = Len(input_pdf)
    /\ \E tobytes \in TobytesOutcomes :
        LET got == serialize_pdf(output_pdf, tobytes)
        IN  IF got.exc = None
            THEN /\ document_bytes' = got.bytes
                 /\ input_pdf' = <<>>
                 /\ output_pdf' = <<>>
                 /\ handles' = {}
                 /\ pc' = "skew_detector"
                 /\ UNCHANGED <<raised, last>>
            ELSE /\ Raise(got.exc)
                 /\ last' = SerializeStep(got.exc)
                 /\ UNCHANGED document_bytes
    /\ UNCHANGED <<settings, document, index, returned, trace, unit_vars>>

\* skew_detector: the check, the two fitz.open calls and SkewDetector()
\* (129-142)
SkewOpen ==
    /\ pc = "skew_detector"
    /\ IF open_input_and_output(document_bytes) = None
       THEN /\ input_pdf' = fitz_open(document_bytes).pages
            /\ output_pdf' = <<>>
            /\ handles' = {"input_pdf", "output_pdf"}
            /\ pc' = "skew_loop"
            /\ UNCHANGED raised
       ELSE Raise(open_input_and_output(document_bytes))
    /\ index' = 0
    /\ UNCHANGED <<settings, document, document_bytes, returned, last, trace,
                   unit_vars>>

\* what goes wrong while deskew_page handles a page rendered as im
DeskewFault(det, im) ==
    IF im.pixmap = "error" THEN {"pixmap"}
    ELSE IF im.n \notin {1, 3, 4} THEN {"channels"}
    ELSE IF Abs(estimate_angle(det, im).angle) >= det.min_correction
            /\ im.encode /= "ok"
    THEN {"encode"}
    ELSE {}

\* skew_detector: one iteration of `for index in range(page_count)`  (143-158)
SkewPage ==
    /\ pc = "skew_loop"
    /\ index < Len(input_pdf)
    /\ \E im \in PipelineImages :
        LET page == input_pdf[index + 1]
            result == deskew_page(DefaultDetector, page, im)
        IN  /\ last' = [NoStep EXCEPT !.stage = "skew", !.index = index,
                                      !.exc = result.exc,
                                      !.recovered = result.recovered,
                                      !.fault = DeskewFault(DefaultDetector, im),
                                      !.image_bytes = result.image_bytes,
                                      !.width_pts = result.width_pts,
                                      !.height_pts = result.height_pts]
            /\ IF result.exc /= None
               THEN /\ Raise(result.exc)
                    /\ trace' = [trace EXCEPT ![page.id] = @ \o <<"deskew_page">>]
                    /\ UNCHANGED index
               ELSE IF result.image_bytes = NoBytes
               THEN /\ output_pdf' = insert_pdf(output_pdf, input_pdf, index, index)
                    /\ index' = index + 1
                    /\ trace' = [trace EXCEPT ![page.id] =
                                    @ \o <<"deskew_page", "deskew_copy">>]
                    /\ UNCHANGED <<pc, raised, input_pdf, handles>>
               ELSE /\ output_pdf' =
                            new_image_page(output_pdf, result.width_pts,
                                           result.height_pts,
                                           result.image_bytes[1])
                    /\ index' = index + 1
                    /\ trace' = [trace EXCEPT ![page.id] =
                                    @ \o <<"deskew_page", "deskew_image">>]
                    /\ UNCHANGED <<pc, raised, input_pdf, handles>>
    /\ UNCHANGED <<settings, document, document_bytes, returned, unit_vars>>

\* skew_detector: serialise, close, return; preprocess() returns  (160-170)
SkewReturn ==
    /\ pc = "skew_loop"
    /\ index = Len(input_pdf)
    /\ \E tobytes \in TobytesOutcomes :
        LET got == serialize_pdf(output_pdf, tobytes)
        IN  IF got.exc = None
            THEN /\ document_bytes' = got.bytes
                 /\ returned' = <<got.bytes>>
                 /\ input_pdf' = <<>>
                 /\ output_pdf' = <<>>
                 /\ handles' = {}
                 /\ pc' = "done"
                 /\ UNCHANGED <<raised, last>>
            ELSE /\ Raise(got.exc)
                 /\ last' = SerializeStep(got.exc)
                 /\ UNCHANGED <<document_bytes, returned>>
    /\ UNCHANGED <<settings, document, index, trace, unit_vars>>

Next ==
    \/ DocumentReader
    \/ DocumentRotatorOpen
    \/ RotatePage
    \/ DocumentRotatorReturn
    \/ ConvertOpen
    \/ ConvertPage
    \/ ConvertReturn
    \/ SkewOpen
    \/ SkewPage
    \/ SkewReturn

Spec == Init /\ [][Next]_vars

\* ---- properties of a run

Ids(pages) == [i \in 1..Len(pages) |-> pages[i].id]

\* the operations applied to input page i so far
Ops(i) == {trace[i][k] : k \in DOMAIN trace[i]}

NumPages == Len(document.pages)

\* C1: after each stage the document has the N input pages in input order
\* (output page i derives from input page i), whichever branch each page
\* took; inside a loop the pages built so far are the first `index` pages.
C1_PageOrderPreserved ==
    /\ pc = "rotate_loop" => Ids(input_pdf) = Ids(document.pages)
    /\ pc \in {"convert_loop", "skew_loop"} =>
            /\ Len(output_pdf) = index
            /\ Ids(output_pdf) = SubSeq(Ids(document.pages), 1, index)
    /\ pc \in {"convert_pdf_to_images_to_pdf", "skew_detector"} =>
            Ids(document_bytes.pages) = Ids(document.pages)
    /\ pc = "done" =>
            /\ Len(returned) = 1
            /\ Ids(returned[1].pages) = Ids(document.pages)

\* C1 witness: a finished run on two pages, the first copied and then
\* deskewed, the second rasterised and then copied
C1_Witness ==
    /\ pc = "done"
    /\ NumPages >= 2
    /\ {"copy", "deskew_image"} \subseteq Ops(1)
    /\ {"rasterize", "deskew_copy"} \subseteq Ops(2)

\* text extraction succeeded on input page i and found nothing
NoExtractableText(i) ==
    /\ ~document.pages[i].text
    /\ "get_text_error" \notin Ops(i)

\* C2 as claimed: with preserve_image_only_pages, over the whole run neither
\* rasterisation nor deskew_page is applied to a page without extractable text.
C2_Original ==
    \A i \in DOMAIN trace :
        (pc = "done" /\ settings.preserve_image_only_pages
                     /\ NoExtractableText(i)) =>
            /\ "rasterize" \notin Ops(i)
            /\ "deskew_page" \notin Ops(i)

\* C2 as amended: with preserve_image_only_pages, a page without extractable
\* text is copied, never rasterised, by the rasterisation stage; the skew
\* stage still applies deskew_page to it, and the final output holds the
\* copy exactly when deskew_page returned no correction, else the deskewed
\* image.
C2_CopiedNotRasterised ==
    \A i \in DOMAIN trace :
        (settings.preserve_image_only_pages /\ NoExtractableText(i)) =>
            /\ "rasterize" \notin Ops(i)
            /\ (pc \in {"skew_detector", "skew_loop", "done"}
                \/ (pc = "convert_loop" /\ index >= i)) => "copy" \in Ops(i)
            /\ pc = "done" =>
                /\ "deskew_page" \in Ops(i)
                /\ returned[1].pages[i].content = "original"
                        <=> "deskew_copy" \in Ops(i)
                /\ returned[1].pages[i].content = "deskewed"
                        <=> "deskew_image" \in Ops(i)

\* C2 witness: a finished run in which a text-less page was copied by the
\* rasterisation stage and then replaced by its deskewed image
C2_Witness ==
    /\ pc = "done"
    /\ settings.preserve_image_only_pages
    /\ NoExtractableText(1)
    /\ {"copy", "deskew_page", "deskew_image"} \subseteq Ops(1)
    /\ returned[1].pages[1].content = "deskewed"

\* the rasterisation stage has handled input page i
Converted(i) ==
    \/ pc = "convert_loop" /\ i <= index
    \/ pc \in {"skew_detector", "skew_loop", "done"}
    \/ pc = "raised" /\ last.stage \in {"skew", "serialize"}
                     /\ "deskew_page" \in Ops(i)

\* C30: the rasterisation stage copies a page if and only if
\* preserve_image_only_pages is enabled and text extraction succeeded and
\* found only whitespace; with the setting disabled, or when extraction
\* raised RuntimeError, the page is rasterised and not copied, and the stage
\* does not fail because of the extraction error.
C30_CopyIffPreservedAndTextless ==
    /\ \A i \in DOMAIN trace :
        /\ "copy" \in Ops(i) =>
                /\ settings.preserve_image_only_pages
                /\ NoExtractableText(i)
                /\ "rasterize" \notin Ops(i)
        /\ Converted(i) =>
                /\ ("copy" \in Ops(i)) \/ ("rasterize" \in Ops(i))
                /\ (settings.preserve_image_only_pages /\ NoExtractableText(i))
                        => "copy" \in Ops(i)
        /\ "get_text_error" \in Ops(i) =>
                /\ settings.preserve_image_only_pages
                /\ "rasterize" \in Ops(i)
    /\ \A k \in 1..Len(output_pdf) :
            pc = "convert_loop" =>
                (output_pdf[k].content = "original" <=> "copy" \in Ops(k))
    /\ (pc = "raised" /\ last.stage = "convert") =>
            /\ last.exc /= None
            /\ (last.fault \ {"get_text"}) /= {}

\* C30 witness: with the setting enabled, text extraction raised on a page
\* without text; the page was rasterised to JPEG and the loop went on
C30_Witness ==
    /\ pc = "convert_loop"
    /\ index >= 1
    /\ settings.preserve_image_only_pages
    /\ last.stage = "convert" /\ last.index = index - 1
    /\ last.exc = None
    /\ "get_text" \in last.recovered
    /\ ~input_pdf[index].text
    /\ output_pdf[index].content = "jpeg"
    /\ "copy" \notin Ops(index)

\* failures a handler of the page's own step recovers, and the others
Recoverable == {"osd", "get_text", "jpeg", "encode"}
Fatal == {"pixmap", "png", "channels", "jpeg_error"}

\* the page of the latest step is in the document its stage is building
LastPageKept ==
    /\ raised = None
    /\ (pc = "rotate_loop" /\ last.stage = "rotate") =>
            /\ index = last.index + 1
            /\ input_pdf[index].id = index
    /\ (pc \in {"convert_loop", "skew_loop"} /\ index = last.index + 1) =>
            /\ Len(output_pdf) = index
            /\ output_pdf[index].id = index

\* C3 as claimed: a page whose processing fails at any stage is still
\* appended and the run continues: no per-page failure aborts the run.
C3_Original ==
    last.fault /= {} => (pc /= "raised" /\ LastPageKept)

\* C3 as amended: a failure recovered by the page's own handlers (detector
\* exception, text-extraction RuntimeError, JPEG ValueError with a working
\* PNG fallback, deskew encoder failure) keeps the page and the run; any
\* other per-page failure leaves preprocess() as an exception with nothing
\* returned; a returned document always has every input page.
C3_FailSoftOnlyWhenHandled ==
    /\ (last.fault /= {} /\ last.fault \subseteq Recoverable) =>
            (last.exc = None /\ pc /= "raised" /\ LastPageKept)
    /\ (last.fault \cap Fatal /= {}) =>
            (last.exc /= None /\ pc = "raised" /\ raised = last.exc)
    /\ pc = "raised" => returned = <<>>
    /\ pc = "done" => Len(returned[1].pages) = NumPages

\* C3 witness: the JPEG encoder rejected a page, the PNG fallback kept it
\* and the loop went on
C3_Witness ==
    /\ pc = "convert_loop"
    /\ last.stage = "convert"
    /\ last.fault = {"jpeg"}
    /\ index = last.index + 1
    /\ output_pdf[index].content = "png"

\* C8: when the encoder of the rotated raster throws or reports failure,
\* no exception leaves deskew_page; it logs and returns image_bytes None
\* with the page's own width and height, and skew_detector copies the page.
C8_EncoderFailureFailsSoft ==
    (last.stage = "skew" /\ "encode" \in last.fault) =>
        /\ last.exc = None
        /\ raised = None
        /\ last.image_bytes = NoBytes
        /\ "encode" \in last.recovered
        /\ (pc = "skew_loop" /\ index = last.index + 1) =>
                /\ last.width_pts = rect(input_pdf[index]).width
                /\ last.height_pts = rect(input_pdf[index]).height
                /\ Len(output_pdf) = index
                /\ output_pdf[index] = input_pdf[index]

\* C8 witness: the encoder failed on the second page of the skew stage and
\* the page was copied
C8_Witness ==
    /\ pc = "skew_loop"
    /\ last.stage = "skew" /\ last.index = 1 /\ index = 2
    /\ "encode" \in last.fault
    /\ output_pdf[2] = input_pdf[2]

\* C10: when the orientation detector throws, the orientation is taken as 0,
\* the upside-down step leaves the page rotation as it was, no exception
\* leaves rotate() and the loop goes on to the next page.
C10_DetectorFailureIgnored ==
    (last.stage = "rotate" /\ "osd" \in last.fault) =>
        /\ last.text_orientation = 0
        /\ last.exc = None
        /\ raised = None
        /\ pc /= "raised"
        /\ pc = "rotate_loop" =>
                /\ index = last.index + 1
                /\ input_pdf[index].rotation = last.mid_rotation

\* C10 witness: the detector threw on the first of two pages and the loop
\* stands before the second
C10_Witness ==
    /\ pc = "rotate_loop"
    /\ last.stage = "rotate" /\ last.index = 0
    /\ "osd" \in last.fault
    /\ index = 1 /\ Len(input_pdf) = 2

\* C14: when a page is rasterised the JPEG encoding is attempted first; the
\* PNG encoding is attempted if and only if the JPEG encoder rejected the
\* buffer (ValueError), and the page is then appended with the PNG bytes; if
\* the PNG encoding fails too, the exception leaves preprocess() and no
\* document is returned: the page is not silently lost.
C14_JpegFirstPngFallback ==
    /\ (last.stage = "convert" /\ "rasterize" \in Ops(last.index + 1)
            /\ "pixmap" \notin last.fault) => last.attempts /= <<>>
    /\ (last.stage = "convert" /\ last.attempts /= <<>>) =>
        /\ last.attempts[1] = "jpeg"
        /\ last.attempts \in {<<"jpeg">>, <<"jpeg", "png">>}
        /\ last.attempts = <<"jpeg", "png">> <=> "jpeg" \in last.fault
        /\ ("jpeg" \in last.fault /\ "png" \notin last.fault) =>
            /\ last.exc = None
            /\ last.image_bytes /= NoBytes
            /\ last.image_bytes[1].fmt = "png"
            /\ pc = "convert_loop" =>
                /\ index = last.index + 1
                /\ Len(output_pdf) = index
                /\ output_pdf[index].id = input_pdf[index].id
                /\ output_pdf[index].content = "png"
        /\ "png" \in last.fault =>
            /\ last.exc /= None
            /\ pc = "raised"
            /\ raised = last.exc
            /\ returned = <<>>

\* C14 witness: the JPEG encoder rejected the page, the PNG encoder failed
\* as well, and the exception left the run
C14_Witness ==
    /\ pc = "raised"
    /\ last.stage = "convert"
    /\ {"jpeg", "png"} \subseteq last.fault
    /\ last.attempts = <<"jpeg", "png">>
    /\ raised = "RuntimeError"

\* the source cannot be read, or is no str and no bytes
ReaderError ==
    \/ document.kind = "None"
    \/ document.kind = "str" /\ document.read /= "ok"

\* what document_reader hands on cannot be opened as a PDF
OpenError ==
    /\ ~ReaderError
    /\ document.kind = "other" \/ ~document.valid

\* C15: an input error (unreadable or corrupt source, non-bytes input,
\* unsupported channel count) leaves preprocess() as an exception and nothing
\* is returned; what a caller receives is a document with every input page,
\* or an error, never a partial document.
C15_InputErrorsPropagate ==
    /\ ReaderError =>
        /\ pc \in {"document_reader", "raised"}
        /\ pc = "raised" =>
                raised \in {"FileNotFoundError", "IOError", "TypeError"}
    /\ OpenError =>
        /\ pc \in {"document_reader", "document_rotator", "raised"}
        /\ pc = "raised" => raised \in {"FileDataError", "TypeError"}
    /\ "channels" \in last.fault => (pc = "raised" /\ raised = "ValueError")
    /\ pc = "raised" => (raised /= None /\ returned = <<>>)
    /\ pc /= "done" => returned = <<>>
    /\ pc = "done" =>
        /\ raised = None
        /\ Len(returned) = 1
        /\ Ids(returned[1].pages) = Ids(document.pages)

\* C15 witness: a path was read, its content was no PDF, and fitz.open's
\* exception left preprocess()
C15_Witness ==
    /\ pc = "raised"
    /\ document.kind = "str" /\ document.read = "ok" /\ ~document.valid
    /\ raised = "FileDataError"
    /\ returned = <<>>

C17_NoOperationBlocksForever ==
    pc \in {"done", "raised"} \/ ENABLED Next

\* the markers in a page's trace that are no stage of its own
IsStageOp(op) == op /= "get_text_error"

\* the stages input page i has passed, in order
Stages(i) == SelectSeq(trace[i], IsStageOp)

\* Read, Oriented, Copied or Rasterized, Deskewed, Appended
StagePaths ==
    {<<"read", "rotate", mid, "deskew_page", app>> :
        mid \in {"copy", "rasterize"}, app \in {"deskew_copy", "deskew_image"}}

IsPrefix(s, t) == Len(s) <= Len(t) /\ SubSeq(t, 1, Len(s)) = s

\* C18: every page passes the stages in the order Read, Oriented, one of
\* Copied and Rasterized, Deskewed, Appended, each at most once and never
\* backwards; Appended is the last and nothing is retried.  A page of a run
\* that ended with a result has passed all five.
C18_PageStageOrder ==
    \A i \in DOMAIN trace :
        /\ \E path \in StagePaths : IsPrefix(Stages(i), path)
        /\ pc = "done" =>
            /\ Stages(i) \in StagePaths
            /\ returned[1].pages[i].id = i

\* C18 witness: a finished run whose first page was rasterised and replaced
\* by its deskewed image and whose second page was copied twice
C18_Witness ==
    /\ pc = "done"
    /\ NumPages >= 2
    /\ Stages(1) = <<"read", "rotate", "rasterize", "deskew_page", "deskew_image">>
    /\ Stages(2) = <<"read", "rotate", "copy", "deskew_page", "deskew_copy">>

\* the pages a stage can produce from this page when the page is the
\* document's only one
ResultsFor(stage, st, page) ==
    {page} \cup
    IF stage = "convert_loop"
    THEN {new_image_page(<<>>, rect(page).width, rect(page).height,
                         render_page_to_image(st, page, env).image_bytes[1])[1] :
            env \in {e \in ConvertEnvs :
                        render_page_to_image(st, page, e).exc = None}}
    ELSE {new_image_page(<<>>,
                         deskew_page(DefaultDetector, page, im).width_pts,
                         deskew_page(DefaultDetector, page, im).height_pts,
                         deskew_page(DefaultDetector, page, im).image_bytes[1])[1] :
            im \in {m \in PipelineImages :
                        deskew_page(DefaultDetector, page, m).image_bytes
                            /= NoBytes}}

\* C19: a per-page operation changes nothing of another page and nothing of
\* the settings: rotate() changes only the page it is given, the
\* rasterisation and skew loops leave the input pages and the pages already
\* appended as they are, and what a step produces for its page is what it
\* produces for that page alone, whatever was processed before it.
C19_NoCrossPageState ==
    [][/\ settings' = settings
       /\ (pc = "rotate_loop" /\ index < Len(input_pdf) /\ pc' /= "raised") =>
            /\ Len(input_pdf') = Len(input_pdf)
            /\ \A j \in DOMAIN input_pdf :
                    j /= index + 1 => input_pdf'[j] = input_pdf[j]
            /\ \E env \in RotateEnvs :
                    input_pdf'[index + 1] = rotate(input_pdf[index + 1], env).page
       /\ (pc \in {"convert_loop", "skew_loop"} /\ index' = index + 1) =>
            /\ input_pdf' = input_pdf
            /\ Len(output_pdf') = index + 1
            /\ SubSeq(output_pdf', 1, index) = output_pdf
            /\ output_pdf'[index + 1]
                    \in ResultsFor(pc, settings, input_pdf[index + 1])]_vars

\* C19 witness: in a two-page document the first page was turned by
\* landscape_rotator, the second was handled after it and is as it was read
C19_Witness ==
    /\ pc = "rotate_loop"
    /\ Len(input_pdf) = 2 /\ index = 2
    /\ input_pdf[1].rotation /= document.pages[1].rotation
    /\ input_pdf[2] = document.pages[2]

\* ------------------------------------------------------------------------
\* PreprocessingSettings and the adaptive DPI policy
\* (document_preprocessor.py 13-37, 206-223; document_preprocessor/base.py
\* 12-29)
\*
\* The module document_preprocessor.py and the package
\* document_preprocessor/ each define a frozen dataclass
\* PreprocessingSettings.  The module's has min_dpi, max_dpi and
\* target_long_edge_px and chooses a DPI per page; the package's has the one
\* fixed raster_dpi.  The constructor arguments are a record of the fields of
\* the class that is built.
\* ------------------------------------------------------------------------

\* the class of the package is the one whose arguments have raster_dpi
is_base_settings(kw) == "raster_dpi" \in DOMAIN kw

\* mutant of post_init: the comparison of max_dpi with min_dpi is missing
post_init_no_max_check(kw) ==
    IF kw.min_dpi <= 0 THEN "ValueError"
    ELSE IF kw.target_long_edge_px <= 0 THEN "ValueError"
    ELSE IF ~(0 <= kw.jpg_quality /\ kw.jpg_quality <= 100) THEN "ValueError"
    ELSE IF ~(0 <= kw.optimize_garbage /\ kw.optimize_garbage <= 4)
    THEN "ValueError"
    ELSE None

\* PreprocessingSettings.__post_init__ of document_preprocessor.py (26-37):
\* the exception it raises, None when the object is accepted
post_init(kw) ==
    IF kw.min_dpi <= 0 THEN "ValueError"
    ELSE IF kw.max_dpi < kw.min_dpi THEN "ValueError"
    ELSE IF kw.target_long_edge_px <= 0 THEN "ValueError"
    ELSE IF ~(0 <= kw.jpg_quality /\ kw.jpg_quality <= 100) THEN "ValueError"
    ELSE IF ~(0 <= kw.optimize_garbage /\ kw.optimize_garbage <= 4)
    THEN "ValueError"
    ELSE None

\* PreprocessingSettings.__post_init__ of document_preprocessor/base.py (23-29)
post_init_base(kw) ==
    IF kw.raster_dpi <= 0 THEN "ValueError"
    ELSE IF ~(0 <= kw.jpg_quality /\ kw.jpg_quality <= 100) THEN "ValueError"
    ELSE IF ~(0 <= kw.optimize_garbage /\ kw.optimize_garbage <= 4)
    THEN "ValueError"
    ELSE None

\* Python's round() of the quotient n / d, d > 0: to the nearest integer,
\* a tie to the even one
round(n, d) ==
    LET q == n \div d
        r == n % d
    IN  IF 2 * r < d THEN q
        ELSE IF 2 * r > d THEN q + 1
        ELSE IF q % 2 = 0 THEN q ELSE q + 1

\* mutant of determine_page_dpi: the target is not limited by max_dpi
determine_page_dpi_no_upper_clamp(st, width, height) ==
    LET long_edge == Max(width, height)
    IN  IF long_edge <= 0 THEN st.min_dpi
        ELSE Max(st.min_dpi, round(st.target_long_edge_px * 72, long_edge))

\* _determine_page_dpi (206-223).  width and height are page.rect's, in
\* points; long_edge_inches = long_edge / 72.0, so the quotient
\* target_long_edge_px / long_edge_inches is target_long_edge_px * 72 /
\* long_edge.
determine_page_dpi(st, width, height) ==
    LET long_edge == Max(width, height)
    IN  IF long_edge <= 0 THEN st.min_dpi
        ELSE LET target_dpi == round(st.target_long_edge_px * 72, long_edge)
             IN  Max(st.min_dpi, Min(st.max_dpi, target_dpi))

\* ---- the constructor calls and pages

SettingsKwargs ==
    [min_dpi : {-1, 0, 1, 2, 240},
     max_dpi : {0, 1, 3, 360},
     target_long_edge_px : {-1, 0, 5, 3400},
     jpg_quality : {-1, 0, 82, 100, 101},
     optimize_garbage : {-1, 4, 5}]

BaseSettingsKwargs ==
    [raster_dpi : {-1, 0, 450},
     jpg_quality : {-1, 0, 82, 100, 101},
     optimize_garbage : {-1, 4, 5}]

\* page.rect widths and heights, in points: degenerate, one and two inches,
\* A4 and a large sheet
RectEdges == {0, 72, 144, 595, 842, 2400}

\* the fields an assignment may name
SettingsFields == {"min_dpi", "max_dpi", "jpg_quality"}

NoDpi == [width |-> 0, height |-> 0, dpi |-> 0]

InitSettings ==
    /\ kwargs \in SettingsKwargs \cup BaseSettingsKwargs
    /\ made = <<>>
    /\ spc = "init"
    /\ dpi_ret = NoDpi
    /\ NormIdle /\ SkewIdle /\ RotIdle /\ PipeIdle /\ FnIdle

\* the dataclass __init__ stores the fields and runs __post_init__: the
\* caller gets the object or the ValueError
PostInit ==
    /\ spc = "init"
    /\ LET exc == IF is_base_settings(kwargs) THEN post_init_base(kwargs)
                  ELSE post_init(kwargs)
       IN  IF exc = None
           THEN made' = <<kwargs>> /\ spc' = "object"
           ELSE made' = <<>> /\ spc' = exc
    /\ UNCHANGED <<kwargs, dpi_ret, norm_vars, skew_vars, rot_vars, pipe_vars, fn_vars>>

\* `settings.<field> = value` on the frozen dataclass: FrozenInstanceError,
\* the object is as it was
SetAttr ==
    /\ spc = "object"
    /\ \E field \in SettingsFields, value \in {-1, 0, 500} :
        /\ spc' = "FrozenInstanceError"
        /\ made' = made
    /\ UNCHANGED <<kwargs, dpi_ret, norm_vars, skew_vars, rot_vars, pipe_vars, fn_vars>>

\* _determine_page_dpi(page) of a preprocessor that holds the object
DeterminePageDpi ==
    /\ spc = "object"
    /\ ~is_base_settings(made[1])
    /\ \E width \in RectEdges, height \in RectEdges :
        dpi_ret' = [width |-> width, height |-> height,
                    dpi |-> determine_page_dpi(made[1], width, height)]
    /\ spc' = "dpi"
    /\ UNCHANGED <<kwargs, made, norm_vars, skew_vars, rot_vars, pipe_vars, fn_vars>>

NextSettings ==
    \/ PostInit
    \/ SetAttr
    \/ DeterminePageDpi

SpecSettings == InitSettings /\ [][NextSettings]_vars

\* t is the quotient n / d rounded as Python's round() rounds it: no integer
\* is nearer, and of two equally near ones t is the even one
IsRounded(t, n, d) ==
    /\ 2 * Abs(t * d - n) <= d
    /\ 2 * Abs(t * d - n) = d => t % 2 = 0

SettingsInvariant(st) ==
    IF is_base_settings(st)
    THEN /\ st.raster_dpi > 0
         /\ 0 <= st.jpg_quality /\ st.jpg_quality <= 100
    ELSE /\ st.min_dpi > 0
         /\ st.max_dpi >= st.min_dpi
         /\ 0 <= st.jpg_quality /\ st.jpg_quality <= 100
         /\ st.target_long_edge_px > 0

detection_dpi_not_positive(args) == args.detection_dpi < 1

\* `if detection_dpi < 72`  (38)
detection_dpi_too_low(args) == args.detection_dpi < 72

\* `if max_detection_size < 256`  (40)
max_detection_size_too_low(args) == args.max_detection_size < 256

\* __init__  (22-48): the exception raised, or the attributes of the object
skew_detector_init(args) ==
    IF detection_dpi_too_low(args)
    THEN [exc |-> "ValueError", self |-> <<>>]
    ELSE IF max_detection_size_too_low(args)
    THEN [exc |-> "ValueError", self |-> <<>>]
    ELSE LET render_scale == [num |-> args.detection_dpi, den |-> 72]
         IN  [exc |-> None,
              self |-> <<[max_skew |-> args.max_skew,
                          min_correction |-> args.min_correction,
                          render_scale |-> render_scale,
                          analysis_scale_limit |-> args.max_detection_size,
                          render_matrix |-> [a |-> render_scale,
                                             d |-> render_scale]]>>]

\* the matrix of `page.get_pixmap(matrix=self._render_matrix, alpha=False)`
\* (83), the only render of deskew_page and detect_skew_angle
page_to_numpy_matrix(self) == self.render_matrix

\* SkewDetector() takes the defaults 15.0, 0.3, 300, 2000  (24-27)
SkewDetectorArgs ==
    [max_skew : {Deg(15), 0},
     min_correction : {3, 0},
     detection_dpi : {-1, 0, 1, 71, 72, 73, 300},
     max_detection_size : {0, 255, 256, 2000}]

InitCtor ==
    /\ sd_args \in SkewDetectorArgs
    /\ sd_self = <<>>
    /\ sd_pc = "init"
    /\ sd_matrix = <<>>
    /\ NormIdle /\ SkewIdle /\ RotIdle /\ PipeIdle /\ CfgIdle
    /\ MedianIdle /\ PreviewIdle

\* SkewDetector(**sd_args): the caller gets the object or the ValueError
SkewDetectorInit ==
    /\ sd_pc = "init"
    /\ LET got == skew_detector_init(sd_args)
       IN  /\ sd_self' = got.self
           /\ sd_pc' = IF got.exc = None THEN "object" ELSE got.exc
    /\ UNCHANGED <<sd_args, sd_matrix, norm_vars, skew_vars, rot_vars,
                   pipe_vars, cfg_vars, median_vars, preview_vars>>

\* deskew_page / detect_skew_angle on the object: the render of line 83
PageToNumpy ==
    /\ sd_pc = "object"
    /\ sd_matrix' = <<page_to_numpy_matrix(sd_self[1])>>
    /\ sd_pc' = "rendered"
    /\ UNCHANGED <<sd_args, sd_self, norm_vars, skew_vars, rot_vars,
                   pipe_vars, cfg_vars, median_vars, preview_vars>>

NextCtor ==
    \/ SkewDetectorInit
    \/ PageToNumpy

SpecCtor == InitCtor /\ [][NextCtor]_vars

\* a scale kept as a fraction is at least 1.0
AtLeastOne(scale) == scale.den > 0 /\ scale.num >= scale.den

\* C21: SkewDetector(...) with detection_dpi < 72 or max_detection_size < 256
\* raises ValueError and yields no detector; a detector that exists has a
\* detection DPI of at least 72, and every render done with it uses a scale
\* of at least 1.0 on both axes.
C21_DetectorNeedsDpiAtLeast72 ==
    /\ sd_pc /= "init" =>
            (sd_pc = "ValueError"
                <=> (sd_args.detection_dpi < 72
                     \/ sd_args.max_detection_size < 256))
    /\ sd_pc = "ValueError" => sd_self = <<>>
    /\ sd_self /= <<>> =>
            /\ sd_args.detection_dpi >= 72
            /\ sd_args.max_detection_size >= 256
    /\ sd_matrix /= <<>> =>
            /\ sd_self /= <<>>
            /\ AtLeastOne(sd_matrix[1].a)
            /\ AtLeastOne(sd_matrix[1].d)

\* C21 witness: a detector built with detection_dpi exactly 72 has rendered
\* a page at scale 1.0
C21_Witness ==
    /\ sd_pc = "rendered"
    /\ sd_args.detection_dpi = 72
    /\ sd_matrix[1].a = [num |-> 72, den |-> 72]

\* ------------------------------------------------------------------------
\* SkewDetector._robust_weighted_angle as a function of its argument
\* (skew_detector.py 202-215).  The function casts, sorts, adds and
\* compares: its numbers are taken as whole numbers here, whatever their
\* unit, so that the float32 casts act on them as they do on floats.
\* ------------------------------------------------------------------------

\* angles and positive weights, some of them beyond 24 significant bits
MedianAngles == {-100, 0, 20, 16777217}
MedianWeights == {1, 3, 16777217}

\* lists of up to MaxLines + 1 pairs
WeightedAngleLists ==
    SeqsUpTo({<<a, w>> : a \in MedianAngles, w \in MedianWeights},
             MaxLines + 1)

InitMedian ==
    /\ wa_arg \in WeightedAngleLists
    /\ wa_pc = "call"
    /\ wa_ret = 0
    /\ NormIdle /\ SkewIdle /\ RotIdle /\ PipeIdle /\ CfgIdle
    /\ CtorIdle /\ PreviewIdle

\* one call of _robust_weighted_angle(weighted_angles)
RobustWeightedAngle ==
    /\ wa_pc = "call"
    /\ wa_ret' = robust_weighted_angle(wa_arg)
    /\ wa_pc' = "return"
    /\ UNCHANGED <<wa_arg, norm_vars, skew_vars, rot_vars, pipe_vars,
                   cfg_vars, ctor_vars, preview_vars>>

NextMedian == RobustWeightedAngle

SpecMedian == InitMedian /\ [][NextMedian]_vars

\* the sum of the weights of the pairs 1..k whose angle is at most a
RECURSIVE WeightUpTo(_, _, _)
WeightUpTo(wa, a, k) ==
    IF k = 0 THEN 0
    ELSE WeightUpTo(wa, a, k - 1) + (IF wa[k][1] <= a THEN wa[k][2] ELSE 0)

TotalWeight(wa) == WeightUpTo(wa, Inf, Len(wa))

\* the input angles at which the cumulative weight, angles taken in
\* ascending order, is at least half of the total weight
ReachesHalf(wa) ==
    {wa[k][1] : k \in {j \in DOMAIN wa :
        2 * WeightUpTo(wa, wa[j][1], Len(wa)) >= TotalWeight(wa)}}

\* the smallest of them: the weighted median of the list
WeightedMedian(wa) ==
    CHOOSE a \in ReachesHalf(wa) : \A b \in ReachesHalf(wa) : a <= b

\* float32 keeps every angle, every weight and every sum of weights of the list
ExactInFloat32(wa) ==
    /\ \A k \in DOMAIN wa : float32(wa[k][1]) = wa[k][1]
    /\ TotalWeight(wa) <= 16777216

\* C23 as claimed: for every non-empty list the value returned is one of the
\* input angles, the smallest at which the cumulative weight reaches half of
\* the total; for the empty list it is 0.0.
C23_Original ==
    wa_pc = "return" =>
        IF wa_arg = <<>> THEN wa_ret = 0
        ELSE /\ wa_ret \in {wa_arg[k][1] : k \in DOMAIN wa_arg}
             /\ wa_ret = WeightedMedian(wa_arg)

\* C23 as amended: for every non-empty list the value returned is the
\* float32 rounding of one of the input angles; when float32 keeps the
\* angles, the weights and the sums of the weights exactly, it is the
\* smallest input angle at which the cumulative weight reaches at least half
\* of the total weight; for the empty list it is 0.0.
C23_WeightedMedianInFloat32 ==
    wa_pc = "return" =>
        IF wa_arg = <<>> THEN wa_ret = 0
        ELSE /\ wa_ret \in {float32(wa_arg[k][1]) : k \in DOMAIN wa_arg}
             /\ ExactInFloat32(wa_arg) => wa_ret = WeightedMedian(wa_arg)

\* C23 witness: two exactly kept pairs, given in descending order, whose
\* cumulative weight is exactly half of the total at the smaller angle,
\* which was returned
C23_Witness ==
    /\ wa_pc = "return"
    /\ wa_arg = << <<0, 3>>, <<-100, 3>> >>
    /\ ExactInFloat32(wa_arg)
    /\ wa_ret = -100

\* ------------------------------------------------------------------------
\* PageRotator: a pixmap on its way to the orientation detector
\* (page_rotator.py 25-37, 51-69), over every pixmap layout and size
\* ------------------------------------------------------------------------

\* pixel sizes around the analysis cap, and a few far from it
PreviewEdges == {1, 9, 3000, 4000, 4001, 8001, 16000}

Pixmaps ==
    [colorspace : {"gray", "rgb", "cmyk"}, alpha : {0, 1},
     w : PreviewEdges, h : PreviewEdges]

InitPreview ==
    /\ pix \in Pixmaps
    /\ pv_pc = "pix_to_cv2_image"
    /\ pv_image = <<>>
    /\ pv_exc = None
    /\ NormIdle /\ SkewIdle /\ RotIdle /\ PipeIdle /\ CfgIdle
    /\ CtorIdle /\ MedianIdle

\* `image = self.pix_to_cv2_image(pix)`  (88)
PixToCv2Image ==
    /\ pv_pc = "pix_to_cv2_image"
    /\ LET got == pix_to_cv2_image(pix)
       IN  /\ pv_image' = got.shape
           /\ pv_exc' = got.exc
           /\ pv_pc' = IF got.exc = None THEN "get_text_orientation"
                       ELSE "pix_to_cv2_image_raised"
    /\ UNCHANGED <<pix, norm_vars, skew_vars, rot_vars, pipe_vars, cfg_vars,
                   ctor_vars, median_vars>>

\* _get_text_orientation up to the call of the detector  (28-37): pv_image
\* becomes small_image
Downscale ==
    /\ pv_pc = "get_text_orientation"
    /\ LET got == downscale(pv_image)
       IN  /\ pv_exc' = got.exc
           /\ IF got.exc = None
              THEN pv_image' = got.shape /\ pv_pc' = "image_to_osd"
              ELSE pv_image' = pv_image
                   /\ pv_pc' = "get_text_orientation_raised"
    /\ UNCHANGED <<pix, norm_vars, skew_vars, rot_vars, pipe_vars, cfg_vars,
                   ctor_vars, median_vars>>

NextPreview ==
    \/ PixToCv2Image
    \/ Downscale

SpecPreview == InitPreview /\ [][NextPreview]_vars

\* C25: for every pixmap layout (grayscale, RGB or CMYK, with or without
\* alpha) pix_to_cv2_image returns an image of exactly 3 channels and does
\* not raise.
C25_ThreeChannelsNoRaise ==
    /\ pv_pc /= "pix_to_cv2_image_raised"
    /\ pv_pc \in {"get_text_orientation", "get_text_orientation_raised",
                  "image_to_osd"} =>
            (Len(pv_image) = 3 /\ pv_image[3] = 3)

\* C26: for every preview of positive width and height the image handed to
\* the detector has its longest side at most 4000 and both sides at least
\* 1; a preview within the cap is handed on as it is; the downscaling does
\* not raise.
C26_PreviewWithinCap ==
    /\ pv_pc /= "get_text_orientation_raised"
    /\ pv_pc = "image_to_osd" =>
            /\ Max(pv_image[1], pv_image[2]) <= 4000
            /\ pv_image[1] >= 1 /\ pv_image[2] >= 1
            /\ Max(pix.h, pix.w) <= 4000 => pv_image = <<pix.h, pix.w, 3>>
====
